---- MODULE Spec2Model ----
(***************************************************************************)
(* Model of the personal assistant's agents: the calendar draft lifecycle  *)
(* (CalendarAgent.process and the handlers it dispatches to), its date     *)
(* resolution and fallback schedule analysis                               *)
(* (src/src/agents/calendar_agent.py), the chunking and summarizing of     *)
(* emails and the drafting, review and sending of an email                 *)
(* (src/src/agents/email_agent.py), and the conversation state of the      *)
(* intent detector (src/src/agents/intent_detector.py).                    *)
(*                                                                         *)
(* Conventions.                                                            *)
(*  - A JSON value is a record [t, v]: t is the JSON type, v the payload.  *)
(*    A JSON string's payload is the sequence of its characters (a word    *)
(*    with no digit or sign in it is kept as one atom).  A JSON float's    *)
(*    payload is the number in half minutes, so 30.5 is 61.                *)
(*  - A timestamp is a number of minutes; day d starts at minute         *)
(*    d * 24 * 60 and day 0 is a Monday, so the weekday of day d is d % 7. *)
(***************************************************************************)
EXTENDS Integers, Sequences, FiniteSets, TLC

VARIABLES
    _current_draft,          \* CalendarAgent._current_draft
    _draft_id,               \* CalendarAgent._draft_id
    _modification_history,   \* CalendarAgent._modification_history
    now,                     \* the wall clock read by datetime.now()
    event_store_creates,     \* calls made to the event store's create operation
    request,                 \* the last call made on the agent
    response,                \* what that call returned
    frame,                   \* the locals of a running _analyze_emails_by_query
    llm_calls,               \* the calls it made to the text-generation capability
    _current_state,          \* IntentDetectorAgent._current_state
    _drafts,                 \* EmailAgent._drafts
    _latest_draft_id,        \* EmailAgent._latest_draft_id
    sent                     \* calls made to the message store's send operation

vars == <<_current_draft, _draft_id, _modification_history, now,
          event_store_creates, request, response, frame, llm_calls,
          _current_state, _drafts, _latest_draft_id, sent>>

----------------------------------------------------------------------------
(* Bounds *)

MaxDraftId == 2

MaxHistory == 2

MaxEmails == 4

MaxEvents == 3
\* calls to the message store's send operation in one run
MaxSends == 2

----------------------------------------------------------------------------
(* JSON values *)

JInt(n) == [t |-> "int", v |-> n]
JFloat(halves) == [t |-> "float", v |-> halves]
JStr(chars) == [t |-> "str", v |-> chars]
JList(items) == [t |-> "list", v |-> items]
JNull == [t |-> "null", v |-> 0]
Missing == [t |-> "missing", v |-> 0]

\* dict.get(key, default): the default stands in for an absent key only
Get(value, default) == IF value = Missing THEN default ELSE value

None == [t |-> "None", v |-> 0]

\* no _analyze_emails_by_query is running
Idle == [pc |-> "idle"]

\* IntentDetectorAgent._current_state after construction
NoContext ==
    [current_draft |-> None, last_action |-> None, pending_confirmation |-> FALSE]

\* the intent detector and the email agent after construction
Constructed ==
    /\ _current_state = NoContext
    /\ _drafts = <<>>
    /\ _latest_draft_id = None
    /\ sent = <<>>

----------------------------------------------------------------------------
(* Python's int() *)

Digits == <<"0", "1", "2", "3", "4", "5", "6", "7", "8", "9">>

IsDigit(c) == \E i \in 1..10 : Digits[i] = c

DigitVal(c) == (CHOOSE i \in 1..10 : Digits[i] = c) - 1

RECURSIVE DigitsVal(_)
DigitsVal(s) ==
    IF s = <<>> THEN 0
    ELSE 10 * DigitsVal(SubSeq(s, 1, Len(s) - 1)) + DigitVal(s[Len(s)])

RECURSIVE Strip(_)
Strip(s) ==
    IF s = <<>> THEN s
    ELSE IF Head(s) = " " THEN Strip(Tail(s))
    ELSE IF s[Len(s)] = " " THEN Strip(SubSeq(s, 1, Len(s) - 1))
    ELSE s

\* int(str): surrounding blanks, one optional sign, then decimal digits only
IntOfStr(chars) ==
    LET s == Strip(chars)
        signed == s # <<>> /\ Head(s) \in {"+", "-"}
        body == IF signed THEN Tail(s) ELSE s
    IN  IF body # <<>> /\ \A i \in 1..Len(body) : IsDigit(body[i])
        THEN [ok |-> TRUE,
              n |-> IF signed /\ Head(s) = "-" THEN 0 - DigitsVal(body)
                    ELSE DigitsVal(body)]
        ELSE [ok |-> FALSE, n |-> 0]

\* int(x) for a JSON value x: ValueError or TypeError is ok = FALSE
PyInt(x) ==
    CASE x.t = "int" -> [ok |-> TRUE, n |-> x.v]
      [] x.t = "float" ->
            [ok |-> TRUE,
             n |-> IF x.v >= 0 THEN x.v \div 2 ELSE 0 - ((0 - x.v) \div 2)]
      [] x.t = "str" -> IntOfStr(x.v)
      [] OTHER -> [ok |-> FALSE, n |-> 0]

----------------------------------------------------------------------------
(* Timestamps and their text form *)

MinutesPerDay == 24 * 60

DateOf(t) == t \div MinutesPerDay

TimeOfDay(t) == t % MinutesPerDay

Weekday(d) == d % 7

\* datetime.replace(year=, month=, day=): another date, the same time of day
ReplaceDate(t, d) == d * MinutesPerDay + TimeOfDay(t)

\* strftime("%Y-%m-%d %I:%M %p")
StrfTime(t) ==
    LET h == TimeOfDay(t) \div 60
    IN  [Ymd |-> DateOf(t),
         I |-> IF h % 12 = 0 THEN 12 ELSE h % 12,
         M |-> TimeOfDay(t) % 60,
         p |-> IF h < 12 THEN "AM" ELSE "PM"]

\* strptime(text, "%Y-%m-%d %I:%M %p")
StrpTime(text) ==
    text.Ymd * MinutesPerDay
        + ((text.I % 12) + (IF text.p = "PM" THEN 12 ELSE 0)) * 60 + text.M

\* a number of minutes as timedelta(minutes=) takes it, in half minutes;
\* a string or None is a TypeError
TimeDelta(x) ==
    CASE x.t = "int" -> [ok |-> TRUE, halves |-> 2 * x.v]
      [] x.t = "float" -> [ok |-> TRUE, halves |-> x.v]
      [] OTHER -> [ok |-> FALSE, halves |-> 0]

\* start + timedelta, printed by strftime: the seconds are dropped
EndText(start, halves) == StrfTime((2 * start + halves) \div 2)

\* f"{duration_mins} minutes"
DurationText(x) == [n |-> x, unit |-> "minutes"]

----------------------------------------------------------------------------
(* The requests the intent layer can hand to process() *)

DefaultDuration == 30

MAX_CONTENT_LENGTH == 120000

At(d, h, m) == d * MinutesPerDay + h * 60 + m

\* the instants at which datetime.now() is read
ClockSet == {At(20, 9, 0), At(21, 17, 30)}

\* "start_time": text in "%Y-%m-%d %H:%M" form, other text, or no such key
StartTimes ==
    {[wf |-> TRUE, Ymd |-> d, H |-> hm[1], M |-> hm[2]] :
        d \in {10, 20, 23, 40}, hm \in {<<11, 0>>, <<23, 50>>}}
    \cup {[wf |-> FALSE, Ymd |-> 0, H |-> 0, M |-> 0]}

\* "duration_minutes": absent, 60, 0, -30, 30.5, "60"
CreateDurations ==
    {Missing, JInt(60), JInt(0), JInt(0 - 30), JFloat(61), JStr(<<"6", "0">>)}

\* "description"
Descriptions ==
    {Missing, JStr(<<"Shopping", " ", "event">>),
     JStr(<<"Lunch", " ", "Tomorrow">>), JNull}

\* "summary" and "attendees": both absent, or both given
Titles ==
    {[summary |-> Missing, attendees |-> Missing],
     [summary |-> JStr(<<"Shopping">>),
      attendees |-> JList(<<"ann@example.com">>)]}

Parameters(s, d, e, t) ==
    [start_time |-> s, duration_minutes |-> d, description |-> e,
     summary |-> t.summary, attendees |-> t.attendees]

\* the parameters of create_event: every start time with and without the
\* "tomorrow" cue, and every duration, description and title at one start time
CreateParameters ==
    {Parameters(s, Missing, e, [summary |-> Missing, attendees |-> Missing]) :
        s \in StartTimes, e \in Descriptions \ {Missing, JNull}}
    \cup {Parameters([wf |-> TRUE, Ymd |-> 23, H |-> 11, M |-> 0], d, Missing, t) :
        d \in CreateDurations, t \in Titles}
    \cup {Parameters([wf |-> TRUE, Ymd |-> 23, H |-> 23, M |-> 50], d, e,
                     [summary |-> Missing, attendees |-> Missing]) :
        d \in {JInt(60)}, e \in {Missing, JNull}}

\* "modification": {"type": ..., "value": ...}
DurationValues ==
    {JStr(<<"6", "0">>), JStr(<<"+", "=", "3", "0">>),
     JStr(<<"+", "=", "1", "5">>), JStr(<<"+", "=", "abc">>),
     JStr(<<"abc">>), JStr(<<"0">>), JStr(<<"-", "3", "0">>),
     JInt(45), JFloat(91), JNull}

Modifications ==
    [type : {"duration"}, value : DurationValues]
    \cup {[type |-> "None", value |-> JNull],
          [type |-> "time", value |-> JStr(<<"1", "5", ":", "0", "0">>)],
          [type |-> "summary", value |-> JStr(<<"Lunch">>)],
          [type |-> "description", value |-> JStr(<<"Weekly", " ", "sync">>)],
          [type |-> "attendees", value |-> JList(<<"bob@example.com">>)]}

\* actions process() has no branch for
OtherActions == {"cancel", "cancel_draft"}

----------------------------------------------------------------------------
(* AgentResponse *)

AgentResponse(success, message, data) ==
    [success |-> success, message |-> message, data |-> data]

NoParameters == [none |-> TRUE]

Request(action, parameters) == [action |-> action, parameters |-> parameters]

----------------------------------------------------------------------------
(* CalendarAgent *)

Init ==
    /\ _current_draft = None
    /\ _draft_id = 0
    /\ _modification_history = <<>>
    /\ now = At(20, 9, 0)
    /\ event_store_creates = 0
    /\ request = Request("", NoParameters)
    /\ response = AgentResponse(TRUE, "", None)
    /\ frame = Idle
    /\ llm_calls = <<>>
    /\ Constructed

\* datetime.strptime(start_time_str, "%Y-%m-%d %H:%M")
ParseStartTime(text) ==
    IF text # Missing /\ text.wf
    THEN [ok |-> TRUE, t |-> At(text.Ymd, text.H, text.M)]
    ELSE [ok |-> FALSE, t |-> 0]

Lower(word) ==
    CASE word = "Tomorrow" -> "tomorrow"
      [] word = "Lunch" -> "lunch"
      [] word = "Shopping" -> "shopping"
      [] word = "Weekly" -> "weekly"
      [] word = "Monday" -> "monday"
      [] word = "Thursday" -> "thursday"
      [] word = "Sunday" -> "sunday"
      [] OTHER -> word

\* "tomorrow" in description.lower()
HasTomorrow(description) ==
    \E i \in 1..Len(description.v) : Lower(description.v[i]) = "tomorrow"

\* DaysAhead taking today for a match of the weekday
DaysAheadSameDay(target_day, current_day) ==
    IF target_day - current_day < 0
    THEN target_day - current_day + 7
    ELSE target_day - current_day

\* days until the next occurrence of the target weekday
DaysAhead(target_day, current_day) ==
    IF target_day - current_day <= 0
    THEN target_day - current_day + 7
    ELSE target_day - current_day

\* NearFuture re-anchoring a candidate that is exactly 7 days away as well
NearFutureWeek(start_time, tomorrow_cue, clock) ==
    LET tomorrow == clock + MinutesPerDay
        diff == DateOf(start_time) - DateOf(clock)
        days_ahead == DaysAhead(Weekday(DateOf(start_time)),
                                Weekday(DateOf(clock)))
    IN  IF tomorrow_cue THEN ReplaceDate(start_time, DateOf(tomorrow))
        ELSE IF (IF diff < 0 THEN 0 - diff ELSE diff) >= 7
             THEN ReplaceDate(start_time, DateOf(clock) + days_ahead)
        ELSE IF start_time < clock
             THEN ReplaceDate(start_time, DateOf(tomorrow))
        ELSE start_time

\* NearFuture moving a past candidate of the week one day on from its own date
NearFutureShift(start_time, tomorrow_cue, clock) ==
    LET tomorrow == clock + MinutesPerDay
        diff == DateOf(start_time) - DateOf(clock)
        days_ahead == DaysAhead(Weekday(DateOf(start_time)),
                                Weekday(DateOf(clock)))
    IN  IF tomorrow_cue THEN ReplaceDate(start_time, DateOf(tomorrow))
        ELSE IF (IF diff < 0 THEN 0 - diff ELSE diff) > 7
             THEN ReplaceDate(start_time, DateOf(clock) + days_ahead)
        ELSE IF start_time < clock
             THEN start_time + MinutesPerDay
        ELSE start_time

\* NearFuture leaving a past candidate of the week where it is
NearFutureKeepPast(start_time, tomorrow_cue, clock) ==
    LET tomorrow == clock + MinutesPerDay
        diff == DateOf(start_time) - DateOf(clock)
        days_ahead == DaysAhead(Weekday(DateOf(start_time)),
                                Weekday(DateOf(clock)))
    IN  IF tomorrow_cue THEN ReplaceDate(start_time, DateOf(tomorrow))
        ELSE IF (IF diff < 0 THEN 0 - diff ELSE diff) > 7
             THEN ReplaceDate(start_time, DateOf(clock) + days_ahead)
        ELSE start_time

\* the date _create_event settles on for a start time that parsed
NearFuture(start_time, tomorrow_cue, clock) ==
    LET tomorrow == clock + MinutesPerDay
        diff == DateOf(start_time) - DateOf(clock)
        target_day == Weekday(DateOf(start_time))
        current_day == Weekday(DateOf(clock))
        days_ahead == IF target_day - current_day <= 0
                      THEN target_day - current_day + 7
                      ELSE target_day - current_day
    IN  IF tomorrow_cue THEN ReplaceDate(start_time, DateOf(tomorrow))
        ELSE IF (IF diff < 0 THEN 0 - diff ELSE diff) > 7
             THEN ReplaceDate(start_time, DateOf(clock) + days_ahead)
        ELSE IF start_time < clock
             THEN ReplaceDate(start_time, DateOf(tomorrow))
        ELSE start_time

Draft(parameters, start_time, duration_mins, halves) ==
    [summary |-> Get(parameters.summary, JStr(<<"New", " ", "Event">>)),
     description |-> Get(parameters.description, JStr(<<>>)),
     start |-> StrfTime(start_time),
     end |-> EndText(start_time, halves),
     duration |-> DurationText(duration_mins),
     attendees |-> Get(parameters.attendees, JList(<<>>))]

\* _create_event counting the draft before the duration is looked at
_create_event_count_first(parameters) ==
    LET parsed == ParseStartTime(parameters.start_time)
        description == Get(parameters.description, JStr(<<>>))
        duration_mins == Get(parameters.duration_minutes, JInt(DefaultDuration))
        delta == TimeDelta(duration_mins)
    IN  /\ _draft_id < MaxDraftId
        /\ request' = Request("create_event", parameters)
        /\ IF ~parsed.ok
           THEN /\ response' = AgentResponse(FALSE, "Invalid start time format", None)
                /\ UNCHANGED <<_current_draft, _draft_id>>
           ELSE IF description.t # "str" \/ ~delta.ok
           THEN /\ response' = AgentResponse(FALSE, "Failed to create event", None)
                /\ _draft_id' = _draft_id + 1
                /\ UNCHANGED _current_draft
           ELSE LET start_time == NearFuture(parsed.t, HasTomorrow(description), now)
                    draft == Draft(parameters, start_time, duration_mins, delta.halves)
                IN  /\ _draft_id' = _draft_id + 1
                    /\ _current_draft' = draft
                    /\ response' = AgentResponse(TRUE, "Here's the event I'm about to create", draft)
        /\ UNCHANGED <<_current_state, _drafts, _latest_draft_id, sent,
                      frame, llm_calls,
                       _modification_history, now, event_store_creates>>

_create_event(parameters) ==
    LET parsed == ParseStartTime(parameters.start_time)
        description == Get(parameters.description, JStr(<<>>))
        duration_mins == Get(parameters.duration_minutes, JInt(DefaultDuration))
        delta == TimeDelta(duration_mins)
    IN  /\ _draft_id < MaxDraftId
        /\ request' = Request("create_event", parameters)
        /\ IF ~parsed.ok
           THEN /\ response' = AgentResponse(FALSE, "Invalid start time format", None)
                /\ UNCHANGED <<_current_draft, _draft_id>>
           ELSE IF description.t # "str" \/ ~delta.ok
           THEN /\ response' = AgentResponse(FALSE, "Failed to create event", None)
                /\ UNCHANGED <<_current_draft, _draft_id>>
           ELSE LET start_time == NearFuture(parsed.t, HasTomorrow(description), now)
                    draft == Draft(parameters, start_time, duration_mins, delta.halves)
                IN  /\ _draft_id' = _draft_id + 1
                    /\ _current_draft' = draft
                    /\ response' = AgentResponse(TRUE, "Here's the event I'm about to create", draft)
        /\ UNCHANGED <<_current_state, _drafts, _latest_draft_id, sent,
                      frame, llm_calls,
                       _modification_history, now, event_store_creates>>

\* _modify_draft storing the new duration text before int() has accepted it
_modify_draft_eager(parameters) ==
    LET modification == parameters.modification
        duration_mins == PyInt(modification.value)
        start_time == StrpTime(_current_draft.start)
        updated == [_current_draft EXCEPT
                       !.end = StrfTime(start_time + duration_mins.n),
                       !.duration = DurationText(JInt(duration_mins.n))]
    IN  /\ request' = Request("modify_draft", parameters)
        /\ IF _current_draft = None
           THEN /\ response' = AgentResponse(FALSE, "No draft event to modify", None)
                /\ UNCHANGED _current_draft
           ELSE IF modification.type = "duration" /\ ~duration_mins.ok
           THEN /\ response' = AgentResponse(FALSE, "Failed to modify draft", None)
                /\ _current_draft' =
                       [_current_draft EXCEPT
                           !.duration = DurationText(modification.value)]
           ELSE /\ _current_draft' =
                       IF modification.type = "duration" THEN updated
                       ELSE _current_draft
                /\ response' = AgentResponse(TRUE, "Here's the updated event", _current_draft')
        /\ UNCHANGED <<_current_state, _drafts, _latest_draft_id, sent,
                      frame, llm_calls,
                       _draft_id, _modification_history, now, event_store_creates>>

_modify_draft(parameters) ==
    LET modification == parameters.modification
        duration_mins == PyInt(modification.value)
        start_time == StrpTime(_current_draft.start)
        updated == [_current_draft EXCEPT
                       !.end = StrfTime(start_time + duration_mins.n),
                       !.duration = DurationText(JInt(duration_mins.n))]
    IN  /\ request' = Request("modify_draft", parameters)
        /\ IF _current_draft = None
           THEN /\ response' = AgentResponse(FALSE, "No draft event to modify", None)
                /\ UNCHANGED _current_draft
           ELSE IF modification.type = "duration" /\ ~duration_mins.ok
           THEN /\ response' = AgentResponse(FALSE, "Failed to modify draft", None)
                /\ UNCHANGED _current_draft
           ELSE /\ _current_draft' =
                       IF modification.type = "duration" THEN updated
                       ELSE _current_draft
                /\ response' = AgentResponse(TRUE, "Here's the updated event", _current_draft')
        /\ UNCHANGED <<_current_state, _drafts, _latest_draft_id, sent,
                      frame, llm_calls,
                       _draft_id, _modification_history, now, event_store_creates>>

\* _confirm_draft without its check for a pending draft
_confirm_draft_unguarded ==
    /\ request' = Request("confirm_draft", NoParameters)
    /\ _current_draft' = None
    /\ response' = AgentResponse(TRUE, "Event created successfully!", _current_draft)
    /\ UNCHANGED <<_current_state, _drafts, _latest_draft_id, sent,
                  frame, llm_calls,
                   _draft_id, _modification_history, now, event_store_creates>>

_confirm_draft ==
    /\ request' = Request("confirm_draft", NoParameters)
    /\ IF _current_draft = None
       THEN /\ response' = AgentResponse(FALSE, "No draft event to confirm", None)
            /\ UNCHANGED _current_draft
       ELSE /\ _current_draft' = None
            /\ response' = AgentResponse(TRUE, "Event created successfully!", _current_draft)
    /\ UNCHANGED <<_current_state, _drafts, _latest_draft_id, sent,
                  frame, llm_calls,
                   _draft_id, _modification_history, now, event_store_creates>>

\* process(): the branch taken for an action it does not know
UnknownAction(action) ==
    /\ request' = Request(action, NoParameters)
    /\ response' = AgentResponse(FALSE, "Unknown action", None)
    /\ UNCHANGED <<_current_state, _drafts, _latest_draft_id, sent,
                  frame, llm_calls,
                   _current_draft, _draft_id, _modification_history, now,
                   event_store_creates>>

\* time passes between two requests
Tick ==
    /\ \E t \in ClockSet : t > now /\ now' = t
    /\ UNCHANGED <<_current_state, _drafts, _latest_draft_id, sent,
                  frame, llm_calls,
                   _current_draft, _draft_id, _modification_history,
                   event_store_creates, request, response>>

----------------------------------------------------------------------------
(* Text returned by the text-generation capability *)

\* the code-fence marker, three backticks
Fence == [t |-> "fence", v |-> "fence"]

Word(w) == [t |-> "word", v |-> w]

\* the text of one JSON value
Json(value) == [t |-> "value", v |-> value]

EmptyDict == [key \in {} |-> Missing]

JDict(fields) == [t |-> "dict", v |-> fields]

\* the part of the text before its first fence
RECURSIVE BeforeFence(_)
BeforeFence(text) ==
    IF text = <<>> \/ Head(text).t = "fence" THEN <<>>
    ELSE <<Head(text)>> \o BeforeFence(Tail(text))

\* strip(); if it starts with a fence, split(fence)[1] less a leading "json"
StripFence(text) ==
    IF text # <<>> /\ Head(text).t = "fence"
    THEN LET inner == BeforeFence(Tail(text))
         IN  IF inner # <<>> /\ Head(inner).t = "word" /\ Head(inner).v = "json"
             THEN Tail(inner)
             ELSE inner
    ELSE text

\* json.loads: the text must be one JSON value and nothing else
JsonLoads(text) ==
    IF Len(text) = 1 /\ text[1].t = "value"
    THEN [ok |-> TRUE, value |-> text[1].v]
    ELSE [ok |-> FALSE, value |-> JNull]

\* dict.get(key, {}) on a dict of the reply
GetDict(fields, key) == IF key \in DOMAIN fields THEN fields[key] ELSE EmptyDict

\* dict.update
Update(d, m) ==
    [key \in DOMAIN d \cup DOMAIN m |-> IF key \in DOMAIN m THEN m[key] ELSE d[key]]

\* the replies of the capability to the modification prompt: the call raises
\* (no text), or returns text
ExplicitMods ==
    {[duration_minutes |-> JStr(<<"+", "=", "3", "0">>)],
     [duration_minutes |-> JStr(<<"+", "=", "abc">>)],
     [duration_minutes |-> JInt(60)],
     [summary |-> JStr(<<"Lunch">>)],
     EmptyDict}

ModificationTexts ==
    {<<Json(JDict([modifications |-> [explicit |-> e, implicit |-> EmptyDict]]))>> :
        e \in ExplicitMods}
    \cup {<<Json(JDict([modifications |->
                [explicit |-> EmptyDict,
                 implicit |-> [location |-> JStr(<<"Room", " ", "4">>)]]]))>>,
          <<Fence, Word("json"),
            Json(JDict([modifications |->
                [explicit |-> [summary |-> JStr(<<"Lunch">>)],
                 implicit |-> EmptyDict]])),
            Fence>>,
          <<Json(JDict([changes |-> EmptyDict]))>>,
          <<Json(JList(<<>>))>>,
          <<Word("Sure"), Word("thing")>>}

ModificationReplies ==
    {[raised |-> TRUE, content |-> <<>>]}
    \cup {[raised |-> FALSE, content |-> text] : text \in ModificationTexts}

ModificationRequests == {<<"rename", " ", "it">>}

----------------------------------------------------------------------------
(* Methods of CalendarAgent that process() does not dispatch to *)

Return(value) == [raised |-> FALSE, value |-> value]

Raise(error) == [raised |-> TRUE, value |-> [t |-> "error", v |-> error]]

\* new_duration.startswith("+=")
IsRelative(x) ==
    x.t = "str" /\ Len(x.v) >= 2 /\ x.v[1] = "+" /\ x.v[2] = "="

\* int(new_duration[2:])
RelativeMinutes(x) == IntOfStr(SubSeq(x.v, 3, Len(x.v)))

\* int(float(x)): text may carry one decimal point; the fraction is dropped
IntOfFloat(x) ==
    IF x.t # "str" THEN PyInt(x)
    ELSE LET s == Strip(x.v)
             signed == s # <<>> /\ Head(s) \in {"+", "-"}
             body == IF signed THEN Tail(s) ELSE s
             dots == {i \in 1..Len(body) : body[i] = "."}
             dot == IF dots = {} THEN Len(body) + 1 ELSE CHOOSE i \in dots : TRUE
             whole == SubSeq(body, 1, dot - 1)
             fraction == SubSeq(body, dot + 1, Len(body))
             digits == whole \o fraction
         IN  IF /\ Cardinality(dots) <= 1
                /\ digits # <<>>
                /\ \A i \in 1..Len(digits) : IsDigit(digits[i])
             THEN [ok |-> TRUE,
                   n |-> IF signed /\ Head(s) = "-" THEN 0 - DigitsVal(whole)
                         ELSE DigitsVal(whole)]
             ELSE [ok |-> FALSE, n |-> 0]

\* the explicit duration change of _handle_modification on a draft; a draft
\* with no "start_time" key ends it in a KeyError
HandleDuration(draft, new_duration) ==
    LET relative == IsRelative(new_duration)
        additional == RelativeMinutes(new_duration)
        current_duration ==
            IF "duration_minutes" \in DOMAIN draft THEN draft.duration_minutes
            ELSE DefaultDuration
        resolved == IF relative THEN JInt(current_duration + additional.n)
                    ELSE new_duration
        minutes == IntOfFloat(resolved)
    IN  IF relative /\ ~additional.ok THEN [ok |-> FALSE, draft |-> draft]
        ELSE IF ~minutes.ok THEN [ok |-> FALSE, draft |-> draft]
        ELSE IF "start_time" \notin DOMAIN draft THEN [ok |-> FALSE, draft |-> draft]
        ELSE [ok |-> TRUE,
              draft |-> [draft EXCEPT !.duration_minutes = minutes.n,
                                      !.end_time = draft.start_time + minutes.n]]

\* the summary, description and attendees keys of the modifications
OtherKeys(mods) ==
    [key \in DOMAIN mods \cap {"summary", "description", "attendees"} |-> mods[key]]

_handle_modification(current_draft, modification_request, reply) ==
    LET loaded == JsonLoads(StripFence(reply.content))
        fields == loaded.value.v
        mods == GetDict(fields, "modifications")
        explicit_mods == GetDict(mods, "explicit")
        implicit_mods == GetDict(mods, "implicit")
        timed == IF "duration_minutes" \in DOMAIN explicit_mods
                 THEN HandleDuration(current_draft, explicit_mods.duration_minutes)
                 ELSE [ok |-> TRUE, draft |-> current_draft]
        modified_draft ==
            Update(Update(timed.draft, OtherKeys(explicit_mods)), implicit_mods)
        entry == [request |-> modification_request,
                  changes |-> [explicit |-> explicit_mods,
                               implicit |-> implicit_mods]]
    IN  /\ Len(_modification_history) < MaxHistory
        /\ request' = Request("_handle_modification",
                              [modification_request |-> modification_request])
        /\ IF \/ reply.raised
              \/ ~loaded.ok
              \/ loaded.value.t # "dict"
              \/ "modifications" \notin DOMAIN fields
              \/ current_draft = None
              \/ ~timed.ok
           THEN /\ response' = Return(None)
                /\ UNCHANGED _modification_history
           ELSE /\ response' = Return(modified_draft)
                /\ _modification_history' = Append(_modification_history, entry)
        /\ UNCHANGED <<_current_state, _drafts, _latest_draft_id, sent,
                      frame, llm_calls,
                       _current_draft, _draft_id, now, event_store_creates>>

_modify_draft_event(modifications) ==
    LET new_duration == modifications.duration_minutes
        relative == IsRelative(new_duration)
        additional == RelativeMinutes(new_duration)
    IN  /\ request' = Request("_modify_draft_event", modifications)
        /\ response' =
              IF _current_draft = None \/ modifications = EmptyDict
              THEN Return(None)
              ELSE IF "duration_minutes" \in DOMAIN modifications
              THEN IF relative /\ ~additional.ok THEN Return(None)
                   ELSE Raise("KeyError")
              ELSE Return(Update(_current_draft, OtherKeys(modifications)))
        /\ UNCHANGED <<_current_state, _drafts, _latest_draft_id, sent,
                      frame, llm_calls,
                       _current_draft, _draft_id, _modification_history, now,
                       event_store_creates>>


\* the drafts _create_event leaves at the first instant of the clock
CreatedDrafts ==
    {Draft(p, NearFuture(ParseStartTime(p.start_time).t,
                         HasTomorrow(Get(p.description, JStr(<<>>))), At(20, 9, 0)),
           Get(p.duration_minutes, JInt(DefaultDuration)),
           TimeDelta(Get(p.duration_minutes, JInt(DefaultDuration))).halves) :
        p \in {q \in CreateParameters :
                  /\ ParseStartTime(q.start_time).ok
                  /\ Get(q.description, JStr(<<>>)).t = "str"
                  /\ TimeDelta(Get(q.duration_minutes, JInt(DefaultDuration))).ok}}

\* the agent after construction, or after one successful create_event
InitDirect ==
    /\ \/ _current_draft = None /\ _draft_id = 0
       \/ _current_draft \in CreatedDrafts /\ _draft_id = 1
    /\ _modification_history = <<>>
    /\ now = At(20, 9, 0)
    /\ event_store_creates = 0
    /\ request = Request("", NoParameters)
    /\ response = AgentResponse(TRUE, "", None)
    /\ frame = Idle
    /\ llm_calls = <<>>
    /\ Constructed

\* the helper methods called directly, as a caller of the class can
direct ==
    \/ \E r \in ModificationRequests, reply \in ModificationReplies :
          _handle_modification(_current_draft, r, reply)
    \/ \E modifications \in ExplicitMods : _modify_draft_event(modifications)

NextDirect ==
    \/ direct
    \/ \E m \in Modifications : _modify_draft([modification |-> m])
    \/ _confirm_draft

SpecDirect == InitDirect /\ [][NextDirect]_vars

----------------------------------------------------------------------------
(* CalendarAgent._parse_time, which process() does not dispatch to.  The    *)
(* year, month and day components of the reply are one component here, the *)
(* day number.                                                             *)

DateTime(t) == [t |-> "datetime", v |-> t]

\* the keys of day_map, in its order: monday is 0
WeekdayNames ==
    <<"monday", "tuesday", "wednesday", "thursday", "friday", "saturday",
      "sunday">>

\* day in time_str.lower()
HasDay(time_str, day) ==
    \E i \in 1..Len(time_str) : Lower(time_str[i]) = day

NamedDays(time_str) == {i \in 1..7 : HasDay(time_str, WeekdayNames[i])}

\* the first key of day_map found in the expression
TargetDay(time_str) ==
    (CHOOSE i \in NamedDays(time_str) : \A j \in NamedDays(time_str) : i <= j) - 1

\* dict.get(key, default)
GetKey(fields, key, default) ==
    IF key \in DOMAIN fields THEN fields[key] ELSE default

\* the expressions handed to _parse_time
TimeStrings ==
    {<<WeekdayNames[i], " ", "3pm">> : i \in 1..7}
    \cup {<<"next", " ", "Thursday">>,
          <<"Sunday", "s", " ", "at", " ", "noon">>,
          <<"friday", " ", "or", " ", "Monday">>,
          <<"tomorrow", " ", "3pm">>}

\* the "parsed_datetime" object of a reply
ParsedDatetimes ==
    {[day |-> JInt(d), hour |-> JInt(15), minute |-> JInt(0)] : d \in {19, 22, 40}}
    \cup {[day |-> JInt(22), hour |-> JInt(0), minute |-> JInt(59)],
          [day |-> JInt(22), hour |-> JStr(<<"1", "5">>), minute |-> JFloat(61)],
          [day |-> JInt(22), minute |-> JInt(45)],
          [hour |-> JInt(8)],
          [day |-> JInt(22), hour |-> JInt(25), minute |-> JInt(0)],
          [day |-> JInt(22), hour |-> JInt(15), minute |-> JInt(60)],
          [day |-> JInt(22), hour |-> JNull, minute |-> JInt(0)],
          EmptyDict}

\* the replies of the capability to the date prompt
DateReplies ==
    {[raised |-> TRUE, content |-> <<>>]}
    \cup {[raised |-> FALSE, content |-> <<Json(JDict([parsed_datetime |-> p]))>>] :
            p \in ParsedDatetimes}
    \cup {[raised |-> FALSE, content |-> text] :
            text \in {<<Fence, Word("json"),
                        Json(JDict([parsed_datetime |->
                            [day |-> JInt(22), hour |-> JInt(15), minute |-> JInt(0)]])),
                        Fence>>,
                      <<Json(JDict([confidence |-> JInt(1)]))>>,
                      <<Json(JList(<<>>))>>,
                      <<Word("Thursday"), Word("afternoon")>>}}

ParseDurations == {30, 60}

\* the instants _parse_time is called at: 09:00 on each day of one week, and
\* late on its Monday
ParseClocks == {At(d, 9, 0) : d \in 21..27} \cup {At(21, 23, 30)}

_parse_time(time_str, default_duration, reply) ==
    LET current_time == now
        loaded == JsonLoads(StripFence(reply.content))
        parsed_dt == GetDict(loaded.value.v, "parsed_datetime")
        day == PyInt(GetKey(parsed_dt, "day", JInt(DateOf(current_time))))
        hour == PyInt(GetKey(parsed_dt, "hour",
                             JInt(TimeOfDay(current_time) \div 60)))
        minute == PyInt(GetKey(parsed_dt, "minute", JInt(0)))
        parsed_time == At(day.n, hour.n, minute.n)
        days_ahead == DaysAhead(TargetDay(time_str),
                                Weekday(DateOf(current_time)))
        start_time ==
            IF NamedDays(time_str) # {}
            THEN ReplaceDate(parsed_time, DateOf(current_time) + days_ahead)
            ELSE parsed_time
        end_time == start_time + default_duration
    IN  /\ request' = Request("_parse_time",
                              [time_str |-> time_str,
                               default_duration |-> default_duration,
                               reply |-> reply])
        /\ response' =
              IF \/ reply.raised
                 \/ ~loaded.ok
                 \/ loaded.value.t # "dict"
                 \/ DOMAIN parsed_dt = {}
                 \/ ~day.ok \/ ~hour.ok \/ ~minute.ok
                 \/ day.n < 0
                 \/ hour.n \notin 0..23
                 \/ minute.n \notin 0..59
              THEN Return(<<None, None>>)
              ELSE Return(<<DateTime(start_time), DateTime(end_time)>>)
        /\ UNCHANGED <<_current_state, _drafts, _latest_draft_id, sent,
                      frame, llm_calls,
                       _current_draft, _draft_id, _modification_history, now,
                       event_store_creates>>

InitParse ==
    /\ _current_draft = None
    /\ _draft_id = 0
    /\ _modification_history = <<>>
    /\ now \in ParseClocks
    /\ event_store_creates = 0
    /\ request = Request("", NoParameters)
    /\ response = AgentResponse(TRUE, "", None)
    /\ frame = Idle
    /\ llm_calls = <<>>
    /\ Constructed

\* the calls made: every expression with three well-formed replies, and one
\* expression with every reply and duration
ParseCalls ==
    {[time_str |-> s, default_duration |-> 30,
      reply |-> [raised |-> FALSE,
                 content |-> <<Json(JDict([parsed_datetime |-> p]))>>]] :
        s \in TimeStrings,
        p \in {[day |-> JInt(22), hour |-> JInt(15), minute |-> JInt(0)],
               [day |-> JInt(40), hour |-> JInt(15), minute |-> JInt(0)],
               [hour |-> JInt(8)]}}
    \cup {[time_str |-> <<"next", " ", "Thursday">>, default_duration |-> d,
           reply |-> r] :
            d \in ParseDurations, r \in DateReplies}

NextParse ==
    \E call \in ParseCalls :
        _parse_time(call.time_str, call.default_duration, call.reply)

SpecParse == InitParse /\ [][NextParse]_vars

----------------------------------------------------------------------------
(* The date _create_event settles on, over every weekday of the clock *)

\* 09:00 on each day of one week
DateClocks == {At(d, 9, 0) : d \in 21..27}

\* candidates from 15 days before the clock to 16 days after it, at an hour
\* before and an hour after the clock's
DateStartTimes ==
    {[wf |-> TRUE, Ymd |-> d, H |-> h, M |-> 0] : d \in 12..37, h \in {8, 11}}

DateParameters ==
    {Parameters(s, Missing, Missing, [summary |-> Missing, attendees |-> Missing]) :
        s \in DateStartTimes}
    \cup {Parameters([wf |-> TRUE, Ymd |-> d, H |-> 8, M |-> 0], Missing,
                     JStr(<<"Lunch", " ", "Tomorrow">>),
                     [summary |-> Missing, attendees |-> Missing]) :
            d \in {12, 20, 24, 37}}

InitDates ==
    /\ _current_draft = None
    /\ _draft_id = 0
    /\ _modification_history = <<>>
    /\ now \in DateClocks
    /\ event_store_creates = 0
    /\ request = Request("", NoParameters)
    /\ response = AgentResponse(TRUE, "", None)
    /\ frame = Idle
    /\ llm_calls = <<>>
    /\ Constructed

NextDates == \E parameters \in DateParameters : _create_event(parameters)

SpecDates == InitDates /\ [][NextDates]_vars

----------------------------------------------------------------------------
(* EmailAgent._chunk_emails (src/src/agents/email_agent.py).  An email is   *)
(* its position in the mailbox and the length of its text form.            *)

Email(id, length) == [id |-> id, length |-> length]

\* len(str(email))
EmailLength(email) == email.length

\* the lengths an email can have, and the limits a chunk is cut at
EmailLengths == {1, 2, 5}

MaxCharsSet == {1, 3, 4}

\* the lists of at most MaxEmails emails
EmailLists ==
    UNION {{[i \in 1..n |-> Email(i, lengths[i])] : lengths \in [1..n -> EmailLengths]} :
              n \in 0..MaxEmails}

\* the loop of _chunk_emails closing a chunk without asking whether it holds
\* an email
RECURSIVE ChunkLoopUnguarded(_, _, _, _, _)
ChunkLoopUnguarded(emails, max_chars, chunks, current_chunk, current_length) ==
    IF emails = <<>>
    THEN IF current_chunk # <<>> THEN Append(chunks, current_chunk) ELSE chunks
    ELSE LET email == Head(emails)
             email_length == EmailLength(email)
             full == current_length + email_length > max_chars
         IN  ChunkLoopUnguarded(Tail(emails), max_chars,
                                IF full THEN Append(chunks, current_chunk) ELSE chunks,
                                Append(IF full THEN <<>> ELSE current_chunk, email),
                                (IF full THEN 0 ELSE current_length) + email_length)

\* the loop of _chunk_emails closing a chunk only once it is over the limit
RECURSIVE ChunkLoopLate(_, _, _, _, _)
ChunkLoopLate(emails, max_chars, chunks, current_chunk, current_length) ==
    IF emails = <<>>
    THEN IF current_chunk # <<>> THEN Append(chunks, current_chunk) ELSE chunks
    ELSE LET email == Head(emails)
             email_length == EmailLength(email)
             full == current_length > max_chars /\ current_chunk # <<>>
         IN  ChunkLoopLate(Tail(emails), max_chars,
                           IF full THEN Append(chunks, current_chunk) ELSE chunks,
                           Append(IF full THEN <<>> ELSE current_chunk, email),
                           (IF full THEN 0 ELSE current_length) + email_length)

\* the for loop of _chunk_emails over the emails still to place, and the
\* closing of the last chunk
RECURSIVE ChunkLoop(_, _, _, _, _)
ChunkLoop(emails, max_chars, chunks, current_chunk, current_length) ==
    IF emails = <<>>
    THEN IF current_chunk # <<>> THEN Append(chunks, current_chunk) ELSE chunks
    ELSE LET email == Head(emails)
             email_length == EmailLength(email)
             full == current_length + email_length > max_chars
                         /\ current_chunk # <<>>
         IN  ChunkLoop(Tail(emails), max_chars,
                       IF full THEN Append(chunks, current_chunk) ELSE chunks,
                       Append(IF full THEN <<>> ELSE current_chunk, email),
                       (IF full THEN 0 ELSE current_length) + email_length)

ChunkEmails(emails, max_chars) == ChunkLoop(emails, max_chars, <<>>, <<>>, 0)

\* a call of _chunk_emails that has not returned yet
ChunkCalls ==
    {Request("_chunk_emails", [emails |-> emails, max_chars |-> max_chars]) :
        emails \in EmailLists, max_chars \in MaxCharsSet}

_chunk_emails ==
    /\ request.action = "_chunk_emails"
    /\ "success" \in DOMAIN response
    /\ response' = Return(ChunkEmails(request.parameters.emails,
                                      request.parameters.max_chars))
    /\ UNCHANGED <<_current_state, _drafts, _latest_draft_id, sent,
                  frame, llm_calls,
                   _current_draft, _draft_id, _modification_history, now,
                   event_store_creates, request>>

InitChunk ==
    /\ _current_draft = None
    /\ _draft_id = 0
    /\ _modification_history = <<>>
    /\ now = At(20, 9, 0)
    /\ event_store_creates = 0
    /\ request \in ChunkCalls
    /\ response = AgentResponse(TRUE, "", None)
    /\ frame = Idle
    /\ llm_calls = <<>>
    /\ Constructed

NextChunk == _chunk_emails

SpecChunk == InitChunk /\ [][NextChunk]_vars

----------------------------------------------------------------------------
(* EmailAgent._analyze_emails_by_query: one action per stretch of the       *)
(* coroutine between two awaits.  llm_calls is the log of the calls the    *)
(* running operation made to the capability, each with the reply it got.   *)

\* the emails the message store finds, or its failure
Mailboxes ==
    {[raised |-> TRUE, emails |-> <<>>],
     [raised |-> FALSE, emails |-> <<>>],
     [raised |-> FALSE, emails |-> <<Email(1, 40000)>>],
     [raised |-> FALSE, emails |-> <<Email(1, 40000), Email(2, 70000)>>],
     [raised |-> FALSE, emails |-> <<Email(1, 70000), Email(2, 70000)>>],
     [raised |-> FALSE,
      emails |-> <<Email(1, 40000), Email(2, 130000), Email(3, 40000)>>]}

\* a summary in the schema of the analysis prompts
Analysis(overview) == JDict([analysis |-> [overview |-> overview]])

\* the replies of the capability to a batch prompt and to the merge prompt
BatchReplies ==
    {[raised |-> TRUE, content |-> <<>>]}
    \cup {[raised |-> FALSE, content |-> text] :
            text \in {<<Json(Analysis("first"))>>,
                      <<Json(Analysis("second"))>>,
                      <<Json(JList(<<>>))>>,
                      <<Fence, Word("json"), Json(Analysis("first")), Fence>>,
                      <<Word("Here"), Word("you"), Word("go")>>}}

MergeReplies ==
    {[raised |-> TRUE, content |-> <<>>]}
    \cup {[raised |-> FALSE, content |-> text] :
            text \in {<<Json(Analysis("merged"))>>,
                      <<Json(JList(<<>>))>>,
                      <<Json(JStr(<<"done">>))>>,
                      <<Fence, Word("json"), Json(Analysis("merged")), Fence>>,
                      <<Word("Here"), Word("you"), Word("go")>>}}

\* chain.ainvoke: a call to the capability, its reply awaited
Call(prompt, batch_num, total_batches, payload) ==
    [prompt |-> prompt, batch_num |-> batch_num,
     total_batches |-> total_batches, payload |-> payload,
     answered |-> FALSE, reply |-> [raised |-> FALSE, content |-> <<>>]]

\* the awaited call returns or raises
Answer(calls, reply) ==
    [calls EXCEPT ![Len(calls)] = [@ EXCEPT !.answered = TRUE, !.reply = reply]]

\* batch_analyses.append(analysis) put at the wrong end
PrependAnalysis(batch_analyses, analysis) == <<analysis>> \o batch_analyses

\* batch_analyses.append(analysis)
AppendAnalysis(batch_analyses, analysis) == Append(batch_analyses, analysis)

\* _merge_analyses asking the capability even for one analysis
MergeAlwaysCalls(analyses) == TRUE

\* _merge_analyses goes to the capability unless there is exactly one analysis
MergeCalls(analyses) == Len(analyses) # 1

\* the except branch of _analyze_emails_by_query
AnalyzeFailed ==
    /\ response' = AgentResponse(FALSE, "Error analyzing emails", None)
    /\ frame' = Idle

\* process(): action == "summarize_inbox", up to the first await
_analyze_emails_by_query(mailbox) ==
    LET all_emails == mailbox.emails
        chunks == ChunkEmails(all_emails, MAX_CONTENT_LENGTH)
    IN  /\ frame.pc = "idle"
        /\ request' = Request("summarize_inbox", NoParameters)
        /\ IF mailbox.raised
           THEN AnalyzeFailed /\ llm_calls' = <<>>
           ELSE IF all_emails = <<>>
           THEN /\ response' = AgentResponse(TRUE, "No emails found matching the criteria",
                                             Analysis("No emails found matching the query"))
                /\ frame' = Idle
                /\ llm_calls' = <<>>
           ELSE /\ frame' = [pc |-> "await_batch", chunks |-> chunks, i |-> 1,
                             batch_analyses |-> <<>>,
                             total_emails |-> Len(all_emails)]
                /\ llm_calls' = <<Call("batch", 1, Len(chunks), chunks[1])>>
                /\ UNCHANGED response
        /\ UNCHANGED <<_current_state, _drafts, _latest_draft_id, sent,
                      _current_draft, _draft_id, _modification_history, now,
                       event_store_creates>>

\* the await of _analyze_email_batch ends: the rest of the loop body, the
\* next turn of the loop or, after the last, the call of _merge_analyses
_analyze_email_batch(reply) ==
    LET loaded == JsonLoads(reply.content)
        batch_analyses == AppendAnalysis(frame.batch_analyses, loaded.value)
        next == frame.i + 1
    IN  /\ frame.pc = "await_batch"
        /\ IF reply.raised \/ ~loaded.ok
           THEN AnalyzeFailed /\ llm_calls' = Answer(llm_calls, reply)
           ELSE IF next <= Len(frame.chunks)
           THEN /\ frame' = [frame EXCEPT !.i = next,
                                          !.batch_analyses = batch_analyses]
                /\ llm_calls' =
                       Append(Answer(llm_calls, reply),
                              Call("batch", next, Len(frame.chunks), frame.chunks[next]))
                /\ UNCHANGED response
           ELSE IF MergeCalls(batch_analyses)
           THEN /\ frame' = [frame EXCEPT !.pc = "await_merge",
                                          !.batch_analyses = batch_analyses]
                /\ llm_calls' =
                       Append(Answer(llm_calls, reply),
                              Call("merge", 0, Len(batch_analyses), batch_analyses))
                /\ UNCHANGED response
           ELSE /\ response' = AgentResponse(TRUE, "Analyzed emails matching your criteria",
                                             batch_analyses[1])
                /\ frame' = Idle
                /\ llm_calls' = Answer(llm_calls, reply)
        /\ UNCHANGED <<_current_state, _drafts, _latest_draft_id, sent,
                      _current_draft, _draft_id, _modification_history, now,
                       event_store_creates, request>>

\* the await of _merge_analyses ends
_merge_analyses(reply) ==
    LET loaded == JsonLoads(reply.content)
    IN  /\ frame.pc = "await_merge"
        /\ llm_calls' = Answer(llm_calls, reply)
        /\ IF reply.raised \/ ~loaded.ok
           THEN AnalyzeFailed
           ELSE /\ response' = AgentResponse(TRUE, "Analyzed emails matching your criteria",
                                             loaded.value)
                /\ frame' = Idle
        /\ UNCHANGED <<_current_state, _drafts, _latest_draft_id, sent,
                      _current_draft, _draft_id, _modification_history, now,
                       event_store_creates, request>>

NextSummarize ==
    \/ \E mailbox \in Mailboxes : _analyze_emails_by_query(mailbox)
    \/ \E reply \in BatchReplies : _analyze_email_batch(reply)
    \/ \E reply \in MergeReplies : _merge_analyses(reply)

SpecSummarize == Init /\ [][NextSummarize]_vars

----------------------------------------------------------------------------
(* CalendarAgent._generate_fallback_analysis.  The text of a start is the   *)
(* day, the hour and the UTC offset it is written with; a date-only start   *)
(* is written with a day alone.                                            *)

IsoDateTime(day, hour, offset) == [day |-> day, hour |-> hour, offset |-> offset]

IsoDate(day) == [day |-> day]

\* datetime.fromisoformat(start.replace('Z', '+00:00')): the day and hour as
\* written; a date alone is its midnight
FromIsoFormat(text) ==
    IF "hour" \in DOMAIN text THEN [day |-> text.day, hour |-> text.hour]
    ELSE [day |-> text.day, hour |-> 0]

\* event['start'].get('dateTime', event['start'].get('date'))
StartOf(event) ==
    IF "dateTime" \in DOMAIN event.start THEN event.start.dateTime
    ELSE event.start.date

Event(summary, start, attendees, description, location) ==
    [summary |-> summary, start |-> start, attendees |-> attendees,
     description |-> description, location |-> location]

\* the events the event store can list
EventPool ==
    {Event(JStr(<<"Standup">>), [dateTime |-> IsoDateTime(1, 9, 0)],
           Missing, Missing, Missing),
     Event(JStr(<<"Review">>), [dateTime |-> IsoDateTime(1, 11, 0)],
           Missing, JStr(<<"Quarter">>), Missing),
     Event(Missing, [dateTime |-> IsoDateTime(1, 5, 0)],
           JList(<<"ann@example.com">>), Missing, Missing),
     Event(JStr(<<"Flight">>), [dateTime |-> IsoDateTime(1, 3, 0)],
           Missing, Missing, JStr(<<"Airport">>)),
     Event(JStr(<<"Holiday">>), [date |-> IsoDate(1)],
           Missing, Missing, Missing),
     Event(JStr(<<"Lunch">>), [dateTime |-> IsoDateTime(1, 12, 0)],
           JList(<<>>), JStr(<<>>), JStr(<<"Cafe">>)),
     Event(JStr(<<"Wrap">>), [dateTime |-> IsoDateTime(1, 16, 0)],
           JList(<<"ann@example.com", "bob@example.com">>),
           JStr(<<"Notes">>), JStr(<<"Cafe">>)),
     Event(JStr(<<"Dinner">>), [dateTime |-> IsoDateTime(1, 17, 0)],
           Missing, Missing, Missing),
     Event(JStr(<<"Run">>), [dateTime |-> IsoDateTime(2, 4, 0)],
           Missing, Missing, Missing),
     Event(JStr(<<"Late">>), [dateTime |-> IsoDateTime(2, 23, 0)],
           Missing, Missing, Missing)}

\* three events of one morning, the last with attendees and nothing else;
\* one instant written with two UTC offsets (22:00 at -03:00 is 01:00 of the
\* next day at +00:00, which is how 'Z' is read)
ScenarioLists ==
    {<<Event(JStr(<<"Standup">>), [dateTime |-> IsoDateTime(1, 9, 0)],
             Missing, Missing, Missing),
       Event(JStr(<<"Sync">>), [dateTime |-> IsoDateTime(1, 9, 0)],
             Missing, Missing, Missing),
       Event(JStr(<<"Demo">>), [dateTime |-> IsoDateTime(1, 10, 0)],
             JList(<<"ann@example.com">>), Missing, Missing)>>,
     <<Event(JStr(<<"Call">>), [dateTime |-> IsoDateTime(1, 22, 0 - 3)],
             Missing, Missing, Missing),
       Event(JStr(<<"Call">>), [dateTime |-> IsoDateTime(2, 1, 0)],
             Missing, Missing, Missing)>>,
     <<Event(JStr(<<"Call">>), [dateTime |-> IsoDateTime(1, 9, 2)],
             Missing, Missing, Missing),
       Event(JStr(<<"Call">>), [dateTime |-> IsoDateTime(1, 7, 0)],
             Missing, Missing, Missing)>>}

\* the lists of at most MaxEvents events of the pool, and the scenarios
EventLists ==
    UNION {[1..n -> EventPool] : n \in 0..MaxEvents} \cup ScenarioLists

\* the truth value Python gives a value of an event: absent, None, "" and []
\* are false
Truthy(value) ==
    /\ value.t \notin {"missing", "null"}
    /\ value.v # <<>>

DayKey(event) == FromIsoFormat(StartOf(event)).day

StartHour(event) == FromIsoFormat(StartOf(event)).hour

\* the keys of events_by_day, in the order they were inserted
RECURSIVE DayKeys(_)
DayKeys(events) ==
    IF events = <<>> THEN <<>>
    ELSE LET before == DayKeys(SubSeq(events, 1, Len(events) - 1))
             day_key == DayKey(events[Len(events)])
         IN  IF \E i \in 1..Len(before) : before[i] = day_key THEN before
             ELSE Append(before, day_key)

\* events_by_day[day]
DayEvents(events, day) == SelectSeq(events, LAMBDA e : DayKey(e) = day)

MorningEvents(day_events) ==
    SelectSeq(day_events, LAMBDA e : 5 <= StartHour(e) /\ StartHour(e) < 12)

AfternoonEvents(day_events) ==
    SelectSeq(day_events, LAMBDA e : 12 <= StartHour(e) /\ StartHour(e) < 17)

EveningEvents(day_events) ==
    SelectSeq(day_events, LAMBDA e : StartHour(e) >= 17)

\* the time_blocks entry of one list of a day, none when the list is empty
BlockEntry(period, day, block_events) ==
    IF block_events = <<>> THEN <<>>
    ELSE <<[period |-> [block |-> period, day |-> day],
            status |-> IF Len(block_events) > 2 THEN "busy" ELSE "moderate",
            description |->
                [count |-> Len(block_events),
                 titles |-> [i \in 1..Len(block_events) |->
                                Get(block_events[i].summary,
                                    JStr(<<"Untitled">>))]]]>>

RECURSIVE TimeBlocks(_, _)
TimeBlocks(days, events) ==
    IF days = <<>> THEN <<>>
    ELSE LET day == Head(days)
             day_events == DayEvents(events, day)
         IN  BlockEntry("morning", day, MorningEvents(day_events))
                 \o BlockEntry("afternoon", day, AfternoonEvents(day_events))
                 \o BlockEntry("evening", day, EveningEvents(day_events))
                 \o TimeBlocks(Tail(days), events)

Overview(days, events) ==
    [days_with_events |-> Len(days),
     total_events |-> Len(events),
     busy_days |-> SelectSeq(days, LAMBDA d : Len(DayEvents(events, d)) > 2)]

\* Importance rating low an event that lacks a description or a location
ImportanceEither(event) ==
    IF ~Truthy(event.description) \/ ~Truthy(event.location) THEN "low"
    ELSE IF ~Truthy(event.attendees) THEN "medium"
    ELSE "high"

\* Importance keeping an event with attendees from being rated low
ImportanceAttendeesFirst(event) ==
    IF ~Truthy(event.attendees)
    THEN IF ~Truthy(event.description) /\ ~Truthy(event.location) THEN "low"
         ELSE "medium"
    ELSE IF ~Truthy(event.description) /\ ~Truthy(event.location) THEN "medium"
    ELSE "high"

Importance(event) ==
    IF ~Truthy(event.description) /\ ~Truthy(event.location) THEN "low"
    ELSE IF ~Truthy(event.attendees) THEN "medium"
    ELSE "high"

KeyEvent(event) ==
    [time |-> StartOf(event),
     event |-> Get(event.summary, JStr(<<"No", " ", "title">>)),
     importance |-> Importance(event),
     location |-> Get(event.location, JStr(<<"No", " ", "location">>)),
     description |-> Get(event.description, JStr(<<"No", " ", "description">>)),
     attendees |-> Len(Get(event.attendees, JList(<<>>)).v)]

SchedulingNotes(days, events) ==
    LET located == SelectSeq(events, LAMBDA e : Truthy(e.location))
        locations == {located[i].location : i \in 1..Len(located)}
        attendee_events == SelectSeq(events, LAMBDA e : Truthy(e.attendees))
    IN  IF events = <<>> THEN <<>>
        ELSE <<[note |-> "Schedule spans", days |-> Len(days), n |-> Len(events)]>>
             \o (IF located = <<>> THEN <<>>
                 ELSE <<[note |-> "Events at", n |-> Cardinality(locations)]>>)
             \o (IF attendee_events = <<>> THEN <<>>
                 ELSE <<[note |-> "events with other attendees",
                         n |-> Len(attendee_events)]>>)

FallbackAnalysis(events) ==
    LET days == DayKeys(events)
    IN  [summary |->
            [overview |-> Overview(days, events),
             key_events |-> [i \in 1..Len(events) |-> KeyEvent(events[i])],
             time_blocks |-> TimeBlocks(days, events),
             scheduling_notes |-> SchedulingNotes(days, events)]]

\* a call of _generate_fallback_analysis that has not returned yet
FallbackCalls ==
    {Request("_generate_fallback_analysis", [events |-> events]) :
        events \in EventLists}

_generate_fallback_analysis ==
    /\ request.action = "_generate_fallback_analysis"
    /\ "success" \in DOMAIN response
    /\ response' = Return(FallbackAnalysis(request.parameters.events))
    /\ UNCHANGED <<_current_state, _drafts, _latest_draft_id, sent,
                  frame, llm_calls,
                   _current_draft, _draft_id,
                   _modification_history, now, event_store_creates, request>>

InitFallback ==
    /\ _current_draft = None
    /\ _draft_id = 0
    /\ _modification_history = <<>>
    /\ now = At(20, 9, 0)
    /\ event_store_creates = 0
    /\ request \in FallbackCalls
    /\ response = AgentResponse(TRUE, "", None)
    /\ frame = Idle
    /\ llm_calls = <<>>
    /\ Constructed

NextFallback == _generate_fallback_analysis

SpecFallback == InitFallback /\ [][NextFallback]_vars

----------------------------------------------------------------------------
(* CalendarAgent._list_events and CalendarAgent.process.  A listing is what *)
(* events().list().execute() gives: it raises, or it returns the items.     *)

\* a summary in the schema of the schedule prompt
ScheduleSummary(overview) == JDict([summary |-> [overview |-> overview]])

\* the listings of the event store and the replies of the capability
Listings ==
    {[raised |-> TRUE, items |-> <<>>], [raised |-> FALSE, items |-> <<>>]}
    \cup {[raised |-> FALSE, items |-> events] : events \in ScenarioLists}

SummaryReplies ==
    {[raised |-> TRUE, content |-> <<>>]}
    \cup {[raised |-> FALSE, content |-> text] :
            text \in {<<Json(ScheduleSummary("busy"))>>,
                      <<Json(JList(<<>>))>>,
                      <<Fence, Word("json"), Json(ScheduleSummary("busy")), Fence>>,
                      <<Word("Here"), Word("you"), Word("go")>>}}

\* the data returned when the calendar is empty
ClearSchedule ==
    [summary |->
        [overview |-> "Your schedule is clear",
         key_events |-> <<>>,
         time_blocks |-> <<[period |-> "all day", status |-> "free",
                            description |-> "No scheduled events"]>>,
         scheduling_notes |-> <<"Your calendar is completely open">>]]

\* the analysis of the listed events: the parsed reply, or the fallback when
\* the capability raises or its reply is not JSON
EventAnalysis(events, reply) ==
    IF reply.raised THEN FallbackAnalysis(events)
    ELSE IF JsonLoads(reply.content).ok THEN JsonLoads(reply.content).value
    ELSE FallbackAnalysis(events)

_list_events(listing, reply) ==
    /\ frame = Idle
    /\ request' = Request("list_events", [listing |-> listing, reply |-> reply])
    /\ response' =
          IF listing.raised
          THEN AgentResponse(FALSE, "Error listing events", None)
          ELSE IF listing.items = <<>>
          THEN AgentResponse(TRUE, "No upcoming events found", ClearSchedule)
          ELSE AgentResponse(TRUE, "Found events",
                             EventAnalysis(listing.items, reply))
    /\ UNCHANGED <<_current_state, _drafts, _latest_draft_id, sent,
                  frame, llm_calls, _current_draft, _draft_id,
                   _modification_history, now, event_store_creates>>

process ==
    \/ \E listing \in Listings, reply \in SummaryReplies :
          _list_events(listing, reply)
    \/ \E parameters \in CreateParameters : _create_event(parameters)
    \/ \E m \in Modifications : _modify_draft([modification |-> m])
    \/ _confirm_draft
    \/ \E action \in OtherActions : UnknownAction(action)

Next == process \/ Tick

Spec == Init /\ [][Next]_vars

----------------------------------------------------------------------------
(* IntentDetectorAgent: the state it keeps between turns and the            *)
(* description of it that goes into the next intent prompt.                 *)

\* the intent the prompt asks the capability for
Intent(agent, action, parameters, context, confirm) ==
    JDict([agent |-> agent, action |-> action, parameters |-> parameters,
           context |-> context, requires_confirmation |-> confirm])

\* the replies of the capability to the intent prompt
IntentReplies ==
    {[raised |-> TRUE, content |-> <<>>]}
    \cup {[raised |-> FALSE, content |-> text] :
            text \in {<<Json(Intent("calendar", "create_event",
                                    [start_time |-> [wf |-> TRUE, Ymd |-> 23,
                                                     H |-> 11, M |-> 0]],
                                    [is_modification |-> FALSE], TRUE))>>,
                      <<Json(Intent("calendar", "create_event",
                                    [start_time |-> [wf |-> FALSE, Ymd |-> 0,
                                                     H |-> 0, M |-> 0]],
                                    [is_modification |-> FALSE], TRUE))>>,
                      <<Json(Intent("calendar", "modify_draft",
                                    [modification |->
                                        [type |-> "summary",
                                         value |-> JStr(<<"Lunch">>)]],
                                    [is_modification |-> TRUE], TRUE))>>,
                      <<Json(Intent("calendar", "modify_draft",
                                    [modification |-> [type |-> "summary"]],
                                    [is_modification |-> TRUE], TRUE))>>,
                      <<Fence, Word("json"),
                        Json(Intent("calendar", "confirm_draft",
                                    [none |-> TRUE],
                                    [is_modification |-> FALSE], FALSE)),
                        Fence>>,
                      <<Json(JDict([agent |-> "calendar"]))>>,
                      <<Json(JList(<<>>))>>,
                      <<Word("Sure")>>}}

\* what process() makes of the reply: the intent, or the error it reports
IntentOf(reply) ==
    LET loaded == JsonLoads(StripFence(reply.content))
        intent == loaded.value.v
    IN  IF reply.raised THEN Raise("Sorry, I encountered an error")
        ELSE IF ~loaded.ok THEN Raise("Failed to parse intent")
        ELSE IF loaded.value.t # "dict" THEN Raise("Sorry, I encountered an error")
        ELSE IF ~({"agent", "action", "parameters", "context"}
                      \subseteq DOMAIN intent)
        THEN Raise("Invalid intent format")
        ELSE IF /\ intent.agent = "calendar"
                /\ intent.action = "create_event"
                /\ "start_time" \in DOMAIN intent.parameters
                /\ ~ParseStartTime(intent.parameters.start_time).ok
        THEN Raise("Invalid intent format")
        ELSE IF /\ GetKey(intent.context, "is_modification", FALSE)
                /\ \/ "modification" \notin DOMAIN intent.parameters
                   \/ ~({"type", "value"}
                           \subseteq DOMAIN intent.parameters.modification)
        THEN Raise("Invalid intent format")
        ELSE Return(intent)

_update_state(intent_response) ==
    [_current_state EXCEPT
        !.last_action = [agent |-> intent_response.agent,
                         action |-> intent_response.action,
                         context |-> intent_response.context],
        !.pending_confirmation =
            GetKey(intent_response, "requires_confirmation", FALSE)]

Sentence(text, agent, action) ==
    [text |-> text, agent |-> agent, action |-> action]

\* the sentences of the description, in order
_get_conversation_state ==
    IF _current_state.last_action = None
    THEN <<Sentence("No previous context. Starting fresh.", "", "")>>
    ELSE (IF _current_state.current_draft # None
          THEN <<Sentence("There is a draft waiting for confirmation or modification.",
                          "", "")>>
          ELSE <<>>)
         \o <<Sentence("Last action", _current_state.last_action.agent,
                       _current_state.last_action.action)>>
         \o (IF _current_state.pending_confirmation
             THEN <<Sentence("Waiting for user confirmation.", "", "")>>
             ELSE <<>>)

\* IntentDetectorAgent.process
IntentProcess(user_input, reply) ==
    /\ request' = Request("detect_intent",
                          [user_input |-> user_input,
                           conversation_state |->
                               IF user_input = <<>> THEN <<>>
                               ELSE _get_conversation_state,
                           reply |-> reply])
    /\ IF user_input = <<>>
       THEN /\ response' = AgentResponse(FALSE, "Invalid input data format", None)
            /\ UNCHANGED _current_state
       ELSE IF IntentOf(reply).raised
       THEN /\ response' = AgentResponse(FALSE, IntentOf(reply).value.v, None)
            /\ UNCHANGED _current_state
       ELSE /\ _current_state' = _update_state(IntentOf(reply).value)
            /\ response' = AgentResponse(TRUE, "Intent detected successfully",
                                         [raw_response |-> StripFence(reply.content)])
    /\ UNCHANGED <<_drafts, _latest_draft_id, sent, frame, llm_calls,
                   _current_draft, _draft_id, _modification_history, now,
                   event_store_creates>>

\* one turn of the assistant asks for the intent, then hands it to an agent
RouterParameters ==
    {Parameters([wf |-> TRUE, Ymd |-> 23, H |-> 11, M |-> 0], d, Missing,
                [summary |-> Missing, attendees |-> Missing]) :
        d \in {Missing, JInt(60)}}

NextRouter ==
    \/ \E user_input \in {<<>>, <<"lunch">>}, reply \in IntentReplies :
          IntentProcess(user_input, reply)
    \/ \E parameters \in RouterParameters : _create_event(parameters)
    \/ \E m \in {[type |-> "None", value |-> JNull],
                 [type |-> "summary", value |-> JStr(<<"Lunch">>)]} :
          _modify_draft([modification |-> m])
    \/ _confirm_draft

SpecRouter == Init /\ [][NextRouter]_vars

----------------------------------------------------------------------------
(* EmailAgent: drafting, review and sending.  The message store answers a   *)
(* send in one of three ways: reading the profile raises, the send itself   *)
(* raises, or the message is sent.                                          *)

JBool(b) == [t |-> "bool", v |-> b]

SendParameters(to, subject, body, reviewed) ==
    [to |-> to, subject |-> subject, body |-> body, reviewed |-> reviewed]

\* the parameters of send_email with the message store's answer: a complete
\* message with each value of the flag and each answer, and a message with
\* one field absent or empty
SendCalls ==
    {[parameters |-> SendParameters(JStr(<<"ann@example.com">>), JStr(<<"Hi">>),
                                    JStr(<<"Hello">>), reviewed),
      outcome |-> outcome] :
        reviewed \in {Missing, JBool(FALSE), JBool(TRUE), JStr(<<"yes">>)},
        outcome \in {"ok", "send_raises", "profile_raises"}}
    \cup {[parameters |-> parameters, outcome |-> "ok"] :
            parameters \in
                {SendParameters(Missing, JStr(<<"Hi">>), JStr(<<"Hello">>),
                                JBool(TRUE)),
                 SendParameters(JStr(<<"ann@example.com">>), JStr(<<>>),
                                JStr(<<"Hello">>), JBool(TRUE)),
                 SendParameters(JStr(<<"ann@example.com">>), JStr(<<"Hi">>),
                                Missing, JBool(TRUE)),
                 SendParameters(Missing, Missing, Missing, Missing)}}

\* a draft in the schema of the drafting prompt
EmailDraft(subject, body) ==
    JDict([draft |-> [subject |-> subject, body |-> body]])

\* the parameters of draft_email with the reply of the capability
DraftCalls ==
    {[to |-> JStr(<<"ann@example.com">>), reply |-> reply] :
        reply \in {[raised |-> TRUE, content |-> <<>>]}
                  \cup {[raised |-> FALSE, content |-> text] :
                          text \in {<<Json(EmailDraft(JStr(<<"Agenda">>),
                                                      JStr(<<"See you">>)))>>,
                                    <<Json(EmailDraft(JStr(<<>>),
                                                      JStr(<<"See you">>)))>>,
                                    <<Json(JDict([subject |-> JStr(<<"Agenda">>)]))>>,
                                    <<Json(JList(<<>>))>>,
                                    <<Fence, Word("json"),
                                      Json(EmailDraft(JStr(<<"Agenda">>),
                                                      JStr(<<"See you">>))),
                                      Fence>>,
                                    <<Word("Sure")>>}}}
    \cup {[to |-> Missing,
           reply |-> [raised |-> FALSE,
                      content |-> <<Json(EmailDraft(JStr(<<"Agenda">>),
                                                    JStr(<<"See you">>)))>>]]}

\* not params.get("reviewed", False), negated
Reviewed(parameters) ==
    LET reviewed == Get(parameters.reviewed, JBool(FALSE))
    IN  IF reviewed.t = "bool" THEN reviewed.v ELSE Truthy(reviewed)

\* the response of _send_email and the calls it made to the store's send
_send_email(to, subject, body, outcome) ==
    IF ~(Truthy(to) /\ Truthy(subject) /\ Truthy(body))
    THEN [response |-> AgentResponse(FALSE, "Missing required parameters (to, subject, body)",
                                     None),
          calls |-> <<>>]
    ELSE IF outcome = "profile_raises"
    THEN [response |-> AgentResponse(FALSE, "Error sending email", None),
          calls |-> <<>>]
    ELSE IF outcome = "send_raises"
    THEN [response |-> AgentResponse(FALSE, "Error sending email", None),
          calls |-> <<[to |-> to, subject |-> subject, body |-> body]>>]
    ELSE [response |-> AgentResponse(TRUE, "Email sent successfully", None),
          calls |-> <<[to |-> to, subject |-> subject, body |-> body]>>]

\* process(): action == "send_email", with the review check left out
send_email_unreviewed(parameters, outcome) ==
    LET result == _send_email(Get(parameters.to, JNull), Get(parameters.subject, JNull),
                              Get(parameters.body, JNull), outcome)
    IN  /\ Len(sent) < MaxSends
        /\ request' = Request("send_email",
                              [parameters |-> parameters, outcome |-> outcome])
        /\ response' = result.response
        /\ sent' = sent \o result.calls
        /\ UNCHANGED <<_current_state, _drafts, _latest_draft_id, frame, llm_calls,
                       _current_draft, _draft_id, _modification_history, now,
                       event_store_creates>>

\* process(): action == "send_email"
send_email(parameters, outcome) ==
    LET result == _send_email(Get(parameters.to, JNull), Get(parameters.subject, JNull),
                              Get(parameters.body, JNull), outcome)
    IN  /\ Len(sent) < MaxSends
        /\ request' = Request("send_email",
                              [parameters |-> parameters, outcome |-> outcome])
        /\ IF ~Reviewed(parameters)
           THEN /\ response' = AgentResponse(FALSE, "Email must be reviewed before sending",
                                             None)
                /\ UNCHANGED sent
           ELSE /\ response' = result.response
                /\ sent' = sent \o result.calls
        /\ UNCHANGED <<_current_state, _drafts, _latest_draft_id, frame, llm_calls,
                       _current_draft, _draft_id, _modification_history, now,
                       event_store_creates>>

\* the key of a draft: datetime.now().strftime("%Y%m%d_%H%M%S")
DraftKey(t) == [t |-> "key", v |-> t]

\* del self._drafts[key]
Del(drafts, key) == [k \in DOMAIN drafts \ {key} |-> drafts[k]]

\* _send_latest_draft keeping the draft it sent
_send_latest_draft_keep(outcome) ==
    /\ Len(sent) < MaxSends
    /\ request' = Request("confirm_send", [outcome |-> outcome])
    /\ IF _latest_draft_id = None \/ _latest_draft_id \notin DOMAIN _drafts
       THEN /\ response' = AgentResponse(FALSE, "No recent draft found to send", None)
            /\ UNCHANGED <<_drafts, _latest_draft_id, sent>>
       ELSE LET draft == _drafts[_latest_draft_id]
                result == _send_email(draft.to, draft.subject, draft.body, outcome)
            IN  /\ response' = result.response
                /\ sent' = sent \o result.calls
                /\ UNCHANGED <<_drafts, _latest_draft_id>>
    /\ UNCHANGED <<_current_state, frame, llm_calls,
                   _current_draft, _draft_id, _modification_history, now,
                   event_store_creates>>

\* process(): action == "confirm_send"
_send_latest_draft(outcome) ==
    /\ Len(sent) < MaxSends
    /\ request' = Request("confirm_send", [outcome |-> outcome])
    /\ IF _latest_draft_id = None \/ _latest_draft_id \notin DOMAIN _drafts
       THEN /\ response' = AgentResponse(FALSE, "No recent draft found to send", None)
            /\ UNCHANGED <<_drafts, _latest_draft_id, sent>>
       ELSE LET draft == _drafts[_latest_draft_id]
                result == _send_email(draft.to, draft.subject, draft.body, outcome)
            IN  /\ response' = result.response
                /\ sent' = sent \o result.calls
                /\ IF result.response.success
                   THEN /\ _drafts' = Del(_drafts, _latest_draft_id)
                        /\ _latest_draft_id' = None
                   ELSE UNCHANGED <<_drafts, _latest_draft_id>>
    /\ UNCHANGED <<_current_state, frame, llm_calls,
                   _current_draft, _draft_id, _modification_history, now,
                   event_store_creates>>

\* process(): action == "draft_email"
_draft_email(to, reply) ==
    LET loaded == JsonLoads(reply.content)
        draft == loaded.value.v.draft
    IN  /\ request' = Request("draft_email", [to |-> to, reply |-> reply])
        /\ IF \/ reply.raised
              \/ ~loaded.ok
              \/ loaded.value.t # "dict"
              \/ "draft" \notin DOMAIN loaded.value.v
              \/ ~({"subject", "body"} \subseteq DOMAIN draft)
           THEN /\ response' = AgentResponse(FALSE, "Error drafting email", None)
                /\ UNCHANGED <<_drafts, _latest_draft_id>>
           ELSE /\ _drafts' = (DraftKey(now) :>
                                   [to |-> Get(to, JNull), subject |-> draft.subject,
                                    body |-> draft.body, created_at |-> now])
                               @@ _drafts
                /\ _latest_draft_id' = DraftKey(now)
                /\ response' = AgentResponse(TRUE, "Email draft created for review",
                                             [draft |-> draft, to |-> Get(to, JNull),
                                              requires_review |-> TRUE])
        /\ UNCHANGED <<_current_state, sent, frame, llm_calls,
                       _current_draft, _draft_id, _modification_history, now,
                       event_store_creates>>

\* EmailAgent.process, less summarize_inbox
EmailProcess ==
    \/ \E call \in DraftCalls : _draft_email(call.to, call.reply)
    \/ \E outcome \in {"ok", "send_raises", "profile_raises"} :
          _send_latest_draft(outcome)
    \/ \E call \in SendCalls : send_email(call.parameters, call.outcome)
    \/ \E action \in OtherActions : UnknownAction(action)

NextEmail == EmailProcess \/ Tick

SpecEmail == Init /\ [][NextEmail]_vars

----------------------------------------------------------------------------
(* Properties *)

\* a step in which the clock stands still is a call on the agent
Called == now' = now

Pending == _current_draft # None

\* the stored duration of a draft, in half minutes
StoredHalves(draft) == TimeDelta(draft.duration.n).halves

\* the call failed: an unsuccessful AgentResponse, None, or an exception
Failed(result) ==
    IF "success" \in DOMAIN result THEN ~result.success
    ELSE result.raised \/ result.value = None

IsPrefix(s, t) == Len(s) <= Len(t) /\ SubSeq(t, 1, Len(s)) = s

\* a modify_draft request of the given type and value
IsModify(r, type, value) ==
    /\ r.action = "modify_draft"
    /\ r.parameters.modification.type = type
    /\ r.parameters.modification.value = value

\* C1: modify_draft or confirm_draft with no draft pending returns a failed
\* response naming the missing draft and leaves the draft slot, the draft
\* counter and the modification history as they were.
C1_NoActiveDraft ==
    [][(/\ Called
        /\ ~Pending
        /\ request'.action \in {"modify_draft", "confirm_draft"})
       => /\ ~response'.success
          /\ response'.message \in {"No draft event to modify",
                                    "No draft event to confirm"}
          /\ UNCHANGED <<_current_draft, _draft_id, _modification_history>>]_vars

\* a modify_draft refused after a create and a confirm brought the slot back
\* to empty
C1_Witness ==
    /\ ~Pending
    /\ _draft_id > 0
    /\ request.action = "modify_draft"
    /\ response.message = "No draft event to modify"

\* C2: a successful confirm_draft invokes the event store's create operation
\* exactly once and leaves no pending draft.
C2_ConfirmCreatesOnce ==
    [][(/\ Called
        /\ Pending
        /\ request'.action = "confirm_draft"
        /\ response'.success)
       => /\ event_store_creates' = event_store_creates + 1
          /\ _current_draft' = None]_vars

\* C3: relative duration modifications add to the current duration in arrival
\* order: "+=30" on a pending draft succeeds and adds 30 minutes, and a
\* "+=15" that follows it succeeds and adds 15 more, the end following the start.
C3_RelativeDeltasAddUp ==
    [][/\ (/\ Called
           /\ Pending
           /\ IsModify(request', "duration", JStr(<<"+", "=", "3", "0">>)))
          => /\ response'.success
             /\ StoredHalves(_current_draft') = StoredHalves(_current_draft) + 60
       /\ (/\ Called
           /\ Pending
           /\ IsModify(request, "duration", JStr(<<"+", "=", "3", "0">>))
           /\ IsModify(request', "duration", JStr(<<"+", "=", "1", "5">>)))
          => /\ response.success
             /\ response'.success
             /\ StoredHalves(_current_draft') = StoredHalves(_current_draft) + 30
             /\ 2 * StrpTime(_current_draft'.end) =
                    2 * StrpTime(_current_draft'.start)
                        + StoredHalves(_current_draft')]_vars

\* C4: a duration value beginning with "+=" is relative (the integer after the
\* prefix is added to the current duration), any other numeric value is
\* absolute, and "+=" followed by a non-integer is a failed operation.
C4_DurationParsing ==
    [][(/\ Called
        /\ Pending
        /\ request'.action = "modify_draft"
        /\ request'.parameters.modification.type = "duration")
       => LET value == request'.parameters.modification.value
          IN  IF IsRelative(value)
              THEN IF RelativeMinutes(value).ok
                   THEN /\ response'.success
                        /\ StoredHalves(_current_draft') =
                               StoredHalves(_current_draft)
                                   + 2 * RelativeMinutes(value).n
                   ELSE /\ ~response'.success
                        /\ UNCHANGED _current_draft
              ELSE PyInt(value).ok
                   => /\ response'.success
                      /\ StoredHalves(_current_draft') = 2 * PyInt(value).n]_vars

\* C5: a modification attempt that fails leaves the pending draft and the
\* modification history exactly as they were.
C5_FailedModificationKeepsState ==
    [][(/\ Called
        /\ request'.action \in {"modify_draft", "_handle_modification",
                                "_modify_draft_event"}
        /\ Failed(response'))
       => UNCHANGED <<_current_draft, _modification_history>>]_vars

\* an unparseable duration refused while a draft is pending and the history
\* holds an entry
C5_Witness ==
    /\ Pending
    /\ _modification_history # <<>>
    /\ IsModify(request, "duration", JStr(<<"+", "=", "abc">>))
    /\ ~response.success

\* C6: a pending draft's end time is its start time plus its stored duration.
C6_EndIsStartPlusDuration ==
    Pending =>
        2 * StrpTime(_current_draft.end) =
            2 * StrpTime(_current_draft.start) + StoredHalves(_current_draft)

\* C7: a pending draft's stored duration is an integer of at least one minute.
C7_DurationPositiveInteger ==
    Pending =>
        /\ _current_draft.duration.n.t = "int"
        /\ _current_draft.duration.n.v >= 1

\* C8: a cancel request while a draft is pending succeeds, clears the draft
\* and does not invoke the event store's create operation.
C8_CancelClearsDraft ==
    [][(/\ Called
        /\ Pending
        /\ request'.action = "cancel")
       => /\ response'.success
          /\ _current_draft' = None
          /\ event_store_creates' = event_store_creates]_vars

\* C9: a successful modify_draft of kind time, summary, description or
\* attendees writes the value into that field of the pending draft, and the
\* draft returned carries it (the time value of Modifications is 15:00, which
\* strftime prints as 03:00 PM).
C9_OtherKindsApplied ==
    [][(/\ Called
        /\ Pending
        /\ request'.action = "modify_draft"
        /\ response'.success)
       => LET m == request'.parameters.modification
          IN  /\ response'.data = _current_draft'
              /\ m.type = "summary" => _current_draft'.summary = m.value
              /\ m.type = "description" => _current_draft'.description = m.value
              /\ m.type = "attendees" => _current_draft'.attendees = m.value
              /\ m.type = "time" =>
                    _current_draft'.start =
                        [_current_draft.start EXCEPT !.I = 3, !.M = 0, !.p = "PM"]]_vars

\* C10: the modification history only grows at its end, and every successful
\* modify_draft appends exactly one entry, the one for that request.
C10_HistoryTracksModifications ==
    [][/\ IsPrefix(_modification_history, _modification_history')
       /\ (/\ Called
           /\ request'.action = "modify_draft"
           /\ response'.success)
          => /\ Len(_modification_history') = Len(_modification_history) + 1
             /\ _modification_history'[Len(_modification_history')].request
                    = request'.parameters.modification]_vars

\* the start and end a call of _parse_time returned, when it resolved
Resolved == request.action = "_parse_time" /\ response.value[1].t = "datetime"

\* C11: when the expression names a weekday W, the start _parse_time resolves
\* is on a date strictly after the reference date, on weekday W, 1 to 7 days
\* ahead and exactly 7 when W is the reference date's weekday; its time of
\* day is the hour and minute of the parsed components, and the end is the
\* start plus the duration.
C11_WeekdayResolution ==
    (Resolved /\ Cardinality(NamedDays(request.parameters.time_str)) = 1) =>
        LET W == TargetDay(request.parameters.time_str)
            parsed_dt == request.parameters.reply.content[
                             Len(request.parameters.reply.content) \div 2 + 1
                         ].v.v.parsed_datetime
            hour == PyInt(GetKey(parsed_dt, "hour", JInt(TimeOfDay(now) \div 60))).n
            minute == PyInt(GetKey(parsed_dt, "minute", JInt(0))).n
            start == response.value[1].v
            end == response.value[2].v
            ahead == DateOf(start) - DateOf(now)
        IN  /\ DateOf(start) > DateOf(now)
            /\ Weekday(DateOf(start)) = W
            /\ ahead \in 1..7
            /\ (W = Weekday(DateOf(now))) <=> (ahead = 7)
            /\ TimeOfDay(start) = hour * 60 + minute
            /\ end = start + request.parameters.default_duration

\* "monday 3pm" asked on a Monday resolves to the Monday a week later
C11_Witness ==
    /\ Resolved
    /\ request.parameters.time_str = <<"monday", " ", "3pm">>
    /\ Weekday(DateOf(now)) = 0
    /\ response.value[1].v = At(DateOf(now) + 7, 15, 0)

\* create_event made a draft from a start time with no "tomorrow" cue
CreatedNoCue ==
    /\ request.action = "create_event"
    /\ response.success
    /\ ~HasTomorrow(Get(request.parameters.description, JStr(<<>>)))

\* the start time the request asked for, and the one the draft carries
Candidate == ParseStartTime(request.parameters.start_time).t

ResolvedStart == StrpTime(_current_draft.start)

\* days from the reference date to the candidate's date
CandidateDiff == DateOf(Candidate) - DateOf(now)

\* C12: without a "tomorrow" cue, a candidate more than 7 days from the
\* reference date, on either side, resolves to the next occurrence of its own
\* weekday, 1 to 7 days after the reference date and 7 when the weekdays
\* coincide, at the candidate's time of day; a candidate exactly 7 days away
\* is not re-anchored (7 days ahead it is kept, 7 days back it goes the way
\* of the past candidates of the week).
C12_ReanchorBeyondWeek ==
    CreatedNoCue =>
        LET ahead == DateOf(ResolvedStart) - DateOf(now)
        IN  /\ CandidateDiff \notin (0 - 7)..7 =>
                  /\ ahead \in 1..7
                  /\ Weekday(DateOf(ResolvedStart)) = Weekday(DateOf(Candidate))
                  /\ (Weekday(DateOf(Candidate)) = Weekday(DateOf(now)))
                         <=> (ahead = 7)
                  /\ TimeOfDay(ResolvedStart) = TimeOfDay(Candidate)
            /\ CandidateDiff = 7 => ResolvedStart = Candidate
            /\ CandidateDiff = 0 - 7 => ahead # 7

\* a candidate two weeks ahead is brought back to one week ahead
C12_Witness ==
    /\ CreatedNoCue
    /\ CandidateDiff = 14
    /\ ResolvedStart = Candidate - 7 * MinutesPerDay

\* C13 as stated: a candidate earlier than the reference time and at most 7
\* days before the reference date resolves to the candidate plus exactly one
\* day.
C13_PastShiftedOneDay ==
    (CreatedNoCue /\ Candidate < now /\ CandidateDiff \in (0 - 7)..0) =>
        ResolvedStart = Candidate + MinutesPerDay

\* C13, amended: such a candidate resolves to the day after the reference
\* date, at the candidate's time of day.
C13_PastMovedToTomorrow ==
    (CreatedNoCue /\ Candidate < now /\ CandidateDiff \in (0 - 7)..0) =>
        ResolvedStart = ReplaceDate(Candidate, DateOf(now) + 1)

\* a candidate three days back lands on the day after the reference date
C13_Witness ==
    /\ CreatedNoCue
    /\ CandidateDiff = 0 - 3
    /\ DateOf(ResolvedStart) = DateOf(now) + 1

\* _chunk_emails has returned its chunks
Chunked == request.action = "_chunk_emails" /\ "value" \in DOMAIN response

RECURSIVE Flatten(_)
Flatten(chunks) ==
    IF chunks = <<>> THEN <<>> ELSE Head(chunks) \o Flatten(Tail(chunks))

RECURSIVE TotalLength(_)
TotalLength(chunk) ==
    IF chunk = <<>> THEN 0 ELSE Head(chunk).length + TotalLength(Tail(chunk))

\* C14: the chunks of _chunk_emails, put end to end, are the input list (no
\* email dropped, repeated, split or moved), no chunk is empty, and no emails
\* give no chunks.
C14_ChunksPartitionInput ==
    Chunked =>
        /\ Flatten(response.value) = request.parameters.emails
        /\ \A i \in 1..Len(response.value) : response.value[i] # <<>>
        /\ request.parameters.emails = <<>> => response.value = <<>>

\* four emails cut into chunks of one, two and one
C14_Witness ==
    /\ Chunked
    /\ Len(request.parameters.emails) = 4
    /\ Len(response.value) = 3
    /\ Len(response.value[2]) = 2

\* C15: every chunk's total length is at most max_chars unless the chunk is
\* one email that is longer than max_chars by itself; an email longer than
\* max_chars is in the output and is alone in its chunk.
C15_ChunkWithinLimit ==
    Chunked =>
        LET max_chars == request.parameters.max_chars
            emails == request.parameters.emails
            chunks == response.value
        IN  /\ \A i \in 1..Len(chunks) :
                  \/ TotalLength(chunks[i]) <= max_chars
                  \/ Len(chunks[i]) = 1 /\ chunks[i][1].length > max_chars
            /\ \A j \in 1..Len(emails) :
                  emails[j].length > max_chars =>
                      \E i \in 1..Len(chunks) : chunks[i] = <<emails[j]>>

\* an email over the limit between two that fit: three chunks
C15_Witness ==
    /\ Chunked
    /\ Len(request.parameters.emails) = 3
    /\ request.parameters.emails[1].length <= request.parameters.max_chars
    /\ request.parameters.emails[2].length > request.parameters.max_chars
    /\ request.parameters.emails[3].length <= request.parameters.max_chars
    /\ Len(response.value) = 3

\* the summary a call to the capability was answered with
Summary(call) == JsonLoads(call.reply.content).value

\* the call was answered with text that json.loads accepts
Summarized(call) ==
    call.answered /\ ~call.reply.raised /\ JsonLoads(call.reply.content).ok

\* the value is a summary in the schema of the analysis prompts
InSchema(value) == value.t = "dict" /\ "analysis" \in DOMAIN value.v

C18_SequentialInOrder ==
    \A k \in 1..Len(llm_calls) :
        /\ k < Len(llm_calls) => Summarized(llm_calls[k])
        /\ llm_calls[k].prompt = "batch" =>
              /\ llm_calls[k].batch_num = k
              /\ k <= llm_calls[k].total_batches
        /\ llm_calls[k].prompt = "merge" =>
              /\ k = llm_calls[1].total_batches + 1
              /\ llm_calls[k].payload =
                     [j \in 1..(k - 1) |-> Summary(llm_calls[j])]

\* a merge dispatched over three batches whose first two summaries differ
C18_Witness ==
    /\ Len(llm_calls) = 4
    /\ llm_calls[4].prompt = "merge"
    /\ llm_calls[4].payload[1] = Analysis("first")
    /\ llm_calls[4].payload[2] = Analysis("second")

\* _generate_fallback_analysis has returned
Analysed ==
    request.action = "_generate_fallback_analysis" /\ "value" \in DOMAIN response

\* the block of a start hour: morning [5,12), afternoon [12,17), evening
\* [17,24) and [0,5)
BlockOf(hour) ==
    IF 5 <= hour /\ hour < 12 THEN "morning"
    ELSE IF 12 <= hour /\ hour < 17 THEN "afternoon"
    ELSE "evening"

\* the events of a day that start in a block, in arrival order
BlockMembers(events, day, block) ==
    SelectSeq(events, LAMBDA e : DayKey(e) = day /\ BlockOf(StartHour(e)) = block)

\* the time_blocks entries of a day and block
EntriesOf(time_blocks, day, block) ==
    SelectSeq(time_blocks, LAMBDA b : b.period.day = day /\ b.period.block = block)

RECURSIVE TotalCount(_)
TotalCount(entries) ==
    IF entries = <<>> THEN 0
    ELSE Head(entries).description.count + TotalCount(Tail(entries))

\* C19: every event is counted in the entry of its day and block, an event
\* starting at hour 0 to 4 (a date-only event too) in the evening block, so
\* the counts of a day's entries add up to the number of events of the day.
C19_BlocksPartitionDay ==
    Analysed =>
        LET events == request.parameters.events
            time_blocks == response.value.summary.time_blocks
        IN  \A i \in 1..Len(events) :
                LET day == DayKey(events[i])
                IN  /\ EntriesOf(time_blocks, day, BlockOf(StartHour(events[i]))) # <<>>
                    /\ TotalCount(SelectSeq(time_blocks,
                                            LAMBDA b : b.period.day = day))
                           = Len(DayEvents(events, day))

\* C20: a day and block has a time_blocks entry if and only if an event of
\* the day starts in the block; the entry's status is busy when the block
\* holds more than 2 events and moderate otherwise, and its description is
\* the number of the block's events and their titles in arrival order.
C20_BlockEntries ==
    Analysed =>
        LET events == request.parameters.events
            time_blocks == response.value.summary.time_blocks
        IN  /\ \A i \in 1..Len(time_blocks) :
                  BlockMembers(events, time_blocks[i].period.day,
                               time_blocks[i].period.block) # <<>>
            /\ \A i \in 1..Len(events) :
                  LET day == DayKey(events[i])
                      block == BlockOf(StartHour(events[i]))
                      members == BlockMembers(events, day, block)
                      entries == EntriesOf(time_blocks, day, block)
                  IN  /\ Len(entries) = 1
                      /\ entries[1].status =
                             IF Len(members) > 2 THEN "busy" ELSE "moderate"
                      /\ entries[1].description =
                             [count |-> Len(members),
                              titles |-> [j \in 1..Len(members) |->
                                             Get(members[j].summary,
                                                 JStr(<<"Untitled">>))]]

\* the importance the three checks leave, run one after the other
ImportanceRule(event) ==
    LET first == "high"
        second == IF ~Truthy(event.attendees) THEN "medium" ELSE first
    IN  IF ~Truthy(event.description) /\ ~Truthy(event.location) THEN "low"
        ELSE second

\* C21: key_events has one entry per input event, in input order, and its
\* importance is high, then medium if the event has no attendees, then low
\* if it has neither a description nor a location.
C21_ImportanceRule ==
    Analysed =>
        LET events == request.parameters.events
            key_events == response.value.summary.key_events
        IN  /\ Len(key_events) = Len(events)
            /\ \A i \in 1..Len(events) :
                  /\ key_events[i].time = StartOf(events[i])
                  /\ key_events[i].importance = ImportanceRule(events[i])

\* three events rated high, medium and low, in that order
C21_Witness ==
    /\ Analysed
    /\ Len(response.value.summary.key_events) = 3
    /\ response.value.summary.key_events[1].importance = "high"
    /\ response.value.summary.key_events[2].importance = "medium"
    /\ response.value.summary.key_events[3].importance = "low"

\* the scenario: three events of one morning, the first two with no
\* attendees, description or location, the third with attendees only
IsScenario(events) ==
    /\ Len(events) = 3
    /\ \A i \in 1..3 :
          /\ DayKey(events[i]) = DayKey(events[1])
          /\ StartHour(events[i]) \in 9..10
          /\ ~Truthy(events[i].description)
          /\ ~Truthy(events[i].location)
          /\ Truthy(events[i].attendees) <=> (i = 3)

\* the parts of the scenario's result that do not depend on the importances
ScenarioBlocks(value, day) ==
    /\ Len(value.summary.time_blocks) = 1
    /\ value.summary.time_blocks[1].period = [block |-> "morning", day |-> day]
    /\ value.summary.time_blocks[1].status = "busy"
    /\ value.summary.overview =
           [days_with_events |-> 1, total_events |-> 3, busy_days |-> <<day>>]

ScenarioImportances(value) ==
    [i \in 1..3 |-> value.summary.key_events[i].importance]

\* C22 as stated: the scenario gives importances low, low, medium, one busy
\* morning block and the overview of a 1-day schedule of 3 events with that
\* day busy.
C22_ScenarioMedium ==
    (Analysed /\ IsScenario(request.parameters.events)) =>
        /\ ScenarioImportances(response.value) = <<"low", "low", "medium">>
        /\ ScenarioBlocks(response.value, DayKey(request.parameters.events[1]))

\* C22, amended: the event with attendees but neither a description nor a
\* location is rated low as well; the block and the overview are as stated.
C22_ScenarioLow ==
    (Analysed /\ IsScenario(request.parameters.events)) =>
        /\ ScenarioImportances(response.value) = <<"low", "low", "low">>
        /\ ScenarioBlocks(response.value, DayKey(request.parameters.events[1]))

\* the scenario analysed, its events at 09:00, 09:00 and 10:00
C22_Witness ==
    /\ Analysed
    /\ IsScenario(request.parameters.events)
    /\ StartHour(request.parameters.events[3]) = 10
    /\ response.value.summary.key_events[3].attendees = 1

\* the instant a start denotes, in hours, and whether it has one
HasInstant(event) == "dateTime" \in DOMAIN event.start

Instant(event) ==
    24 * event.start.dateTime.day + event.start.dateTime.hour
        - event.start.dateTime.offset

\* C23: events whose starts denote one instant, whatever UTC offset each is
\* written with, are grouped under one day: the overview counts one day.
C23_GroupingIgnoresOffset ==
    Analysed =>
        LET events == request.parameters.events
        IN  (/\ events # <<>>
             /\ \A i \in 1..Len(events) :
                   /\ HasInstant(events[i])
                   /\ Instant(events[i]) = Instant(events[1]))
            => response.value.summary.overview.days_with_events = 1

----------------------------------------------------------------------------
(* Calendar listing *)

\* the last request listed at least one event
Listed ==
    /\ request.action = "list_events"
    /\ ~request.parameters.listing.raised
    /\ request.parameters.listing.items # <<>>

\* the reply parses to a value of the schedule-summary schema
InScheduleSchema(value) == value.t = "dict" /\ "summary" \in DOMAIN value.v

\* the capability failed, or its reply is not JSON, or not of the schema
Unusable(reply) ==
    \/ reply.raised
    \/ ~JsonLoads(reply.content).ok
    \/ ~InScheduleSchema(JsonLoads(reply.content).value)

Fenced(reply) ==
    /\ ~reply.raised
    /\ reply.content # <<>>
    /\ Head(reply.content) = Fence
    /\ JsonLoads(StripFence(reply.content)).ok

\* C25: a reply that is valid structured data wrapped in code-fence markers is
\* stripped and accepted with the same result as the unwrapped reply; for the
\* calendar listing, the data of the response is the value inside the fence.
C25_FencedReplyAccepted ==
    (Listed /\ Fenced(request.parameters.reply)) =>
        /\ response.success
        /\ response.data =
              JsonLoads(StripFence(request.parameters.reply.content)).value

----------------------------------------------------------------------------
(* Near-future drafts *)

\* the last request was a create_event that succeeded
Created == request.action = "create_event" /\ response.success

\* C27: the draft of a successful create_event starts no earlier than the
\* reference time, on a date from the reference date to 7 days after it,
\* whatever the candidate and with or without "tomorrow" in the description.
C27_DraftNearFuture ==
    Created =>
        /\ ResolvedStart >= now
        /\ DateOf(ResolvedStart) - DateOf(now) \in 0..7

\* a candidate of yesterday morning without the cue, and a far-future
\* candidate with it, both end on the day after the reference date
C27_Witness ==
    /\ Created
    /\ DateOf(ResolvedStart) = DateOf(now) + 1
    /\ \/ ~HasTomorrow(Get(request.parameters.description, JStr(<<>>)))
          /\ CandidateDiff = 0 - 1
       \/ HasTomorrow(Get(request.parameters.description, JStr(<<>>)))
          /\ CandidateDiff > 7

----------------------------------------------------------------------------
(* Intent router *)

\* the description for the next intent prompt says a draft is waiting
DraftReported ==
    \E i \in 1..Len(_get_conversation_state) :
        _get_conversation_state[i].text =
            "There is a draft waiting for confirmation or modification."

\* C26: the description built for the next intent prompt reports a waiting
\* draft exactly when the calendar agent holds a pending draft.
C26_DescriptionTracksDraft == (_current_draft # None) <=> DraftReported

----------------------------------------------------------------------------
(* Email review and draft lifecycle *)

\* the step serves a request of the given action (a Tick moves the clock)
Serves(action) == Called /\ request'.action = action

\* the latest draft id names a stored draft
LatestStored == _latest_draft_id # None /\ _latest_draft_id \in DOMAIN _drafts

\* the parameters of the request carry every field of a message
Complete(parameters) ==
    /\ Truthy(Get(parameters.to, JNull))
    /\ Truthy(Get(parameters.subject, JNull))
    /\ Truthy(Get(parameters.body, JNull))

\* C28: the store's send is invoked only by a send_email with a truthy
\* reviewed flag and non-empty to, subject and body, or by a confirm_send
\* while a latest draft is stored; a send_email without the flag or with a
\* field missing, and a confirm_send with no stored latest draft, fail
\* without invoking it.
C28_NoSendWithoutReview ==
    [][/\ sent' # sent =>
            \/ /\ Serves("send_email")
               /\ Reviewed(request'.parameters.parameters)
               /\ Complete(request'.parameters.parameters)
            \/ Serves("confirm_send") /\ LatestStored
       /\ (/\ Serves("send_email")
           /\ \/ ~Reviewed(request'.parameters.parameters)
              \/ ~Complete(request'.parameters.parameters))
             => ~response'.success /\ sent' = sent
       /\ (Serves("confirm_send") /\ ~LatestStored)
             => ~response'.success /\ sent' = sent]_vars

\* a reviewed draft was sent by confirm_send after a direct send_email
C28_Witness ==
    /\ Len(sent) = 2
    /\ sent[1].subject # sent[2].subject
    /\ request.action = "confirm_send"
    /\ response.success

\* C29: the latest draft id is unset or a key of the stored drafts; a
\* confirm_send that succeeds sends the latest draft, removes it and unsets
\* the id, so that a confirm_send right after it fails and sends nothing; a
\* confirm_send that fails leaves the drafts and the id as they were.
C29_DraftLifecycle ==
    /\ [](_latest_draft_id = None \/ _latest_draft_id \in DOMAIN _drafts)
    /\ [][Serves("confirm_send") =>
            /\ response'.success =>
                  /\ LatestStored
                  /\ sent' = Append(sent, [to |-> _drafts[_latest_draft_id].to,
                                           subject |-> _drafts[_latest_draft_id].subject,
                                           body |-> _drafts[_latest_draft_id].body])
                  /\ _drafts' = Del(_drafts, _latest_draft_id)
                  /\ _latest_draft_id' = None
            /\ ~response'.success => UNCHANGED <<_drafts, _latest_draft_id>>
            /\ _latest_draft_id = None => ~response'.success /\ sent' = sent]_vars

\* the latest draft was sent and removed on a retry, after a send that
\* failed, while an older draft stays stored
C29_Witness ==
    /\ request.action = "confirm_send"
    /\ response.success
    /\ _latest_draft_id = None
    /\ DOMAIN _drafts # {}
    /\ Len(sent) = 2
    /\ sent[1] = sent[2]

----------------------------------------------------------------------------
(* Draft counter *)

\* C30: a create_event that fails leaves the pending draft and the draft
\* counter as they were; one that succeeds adds exactly one to the counter
\* and makes its draft the pending one; modify_draft, confirm_draft and
\* list_events leave the counter alone.
C30_CounterCountsCreatedDrafts ==
    [][/\ (Serves("create_event") /\ ~response'.success)
             => UNCHANGED <<_current_draft, _draft_id>>
       /\ (Serves("create_event") /\ response'.success)
             => /\ _draft_id' = _draft_id + 1
                /\ _current_draft' # None
                /\ _current_draft' = response'.data
       /\ (\/ Serves("modify_draft")
           \/ Serves("confirm_draft")
           \/ Serves("list_events"))
             => _draft_id' = _draft_id]_vars

\* a create_event with a duration that is text was refused while the first
\* draft was pending
C30_Witness ==
    /\ request.action = "create_event"
    /\ ~response.success
    /\ request.parameters.duration_minutes.t = "str"
    /\ Pending
    /\ _draft_id = 1

====
